---- MODULE Spec2Model ----
(***************************************************************************)
(* The lossless syntax tree of rome_rowan: the typed facade of             *)
(* crates/rome_rowan/src/api.rs over the green tree, the red cursor, the   *)
(* tree builder and the mutation layer; and the pattern parser of          *)
(* crates/rslint_parser/src/syntax/pat.rs with the events it emits.        *)
(*                                                                         *)
(* Slot positions and path components are 1-based here (TLA+ sequences);   *)
(* text offsets are 0-based as in TextSize.                                *)
(***************************************************************************)
EXTENDS Integers, Sequences, FiniteSets, TLC

VARIABLES
    pc,        \* "building" | "built" | "panic"
    parents,   \* TreeBuilder: the open frames, <<[kind, first_child]>>
    bchildren, \* TreeBuilder: the slots emitted so far and not yet sealed
    emitted,   \* history: every token / missing event, in emission order
    frames,    \* history: per open frame, its path and the slot events emitted in it
    sealed,    \* history: <<[path, count]>> for every finish_node so far
    trees,     \* the trees alive: <<[green, mutable, state]>>; trees[1] is the built root
    last,      \* history: the last mutation-layer call and what it was applied to
    snaps,     \* history: <<[handle, green]>> for every immutable root handed out
    nops,      \* number of mutation-layer calls so far
    log,       \* history: the TreeBuilder calls so far, <<[op, path, elem]>>
    held,      \* the SyntaxList the client holds
    parser     \* the rslint parser: its input, position, events and state

vars == <<pc, parents, bchildren, emitted, frames, sealed, trees, last, snaps, nops,
          log, held, parser>>

----------------------------------------------------------------------------
(* Bounds of the model *)

MaxElems == 4    \* nodes started plus token / missing events of one build
MaxOps == 3      \* mutation-layer calls after the build
MaxIns == 2      \* elements inserted by one splice_children

MaxToks == 2     \* tokens of the input the pattern parser is given

----------------------------------------------------------------------------
(* Option values *)

None == <<>>
Some(x) == <<x>>

Last(s) == s[Len(s)]
Front(s) == SubSeq(s, 1, Len(s) - 1)

----------------------------------------------------------------------------
(* Kinds *)

list_kind == 0

NodeKinds == {0, 1}

----------------------------------------------------------------------------
(* Trivia pieces and green values *)

Whitespace(n) == [tag |-> "Whitespace", len |-> n]
Comments(n) == [tag |-> "Comments", len |-> n]

TriviaPiece_text_len(piece) == piece.len

RECURSIVE SumLen(_)
SumLen(ss) == IF ss = <<>> THEN 0 ELSE Head(ss).len + SumLen(Tail(ss))

GreenToken(kind, txt, leading, trailing) ==
    [tag |-> "Token", kind |-> kind, len |-> Len(txt), txt |-> txt,
     lead |-> leading, trail |-> trailing, slots |-> <<>>]

GreenNode(kind, slots) ==
    [tag |-> "Node", kind |-> kind, len |-> SumLen(slots), txt |-> <<>>,
     lead |-> <<>>, trail |-> <<>>, slots |-> slots]

EmptySlot ==
    [tag |-> "Empty", kind |-> -1, len |-> 0, txt |-> <<>>,
     lead |-> <<>>, trail |-> <<>>, slots |-> <<>>]

(* The token events the parser may emit: token(kind, text) and
   token_with_trivia(kind, text, leading, trailing). *)
TokA == GreenToken(2, <<"a">>, <<>>, <<>>)
TokB == GreenToken(3, <<" ", "/", "b", "\t">>, <<Whitespace(1), Comments(1)>>, <<Whitespace(1)>>)

TokenInputs == {TokA, TokB}

----------------------------------------------------------------------------
(* Red cursor: a node or token handle is a root green value and the path of
   slot positions leading to the element. *)

Red(g, path) == [root |-> g, path |-> path]

RECURSIVE Flatten(_)
Flatten(ss) == IF ss = <<>> THEN <<>> ELSE Head(ss) \o Flatten(Tail(ss))

RECURSIVE green_at(_, _)
green_at(g, path) ==
    IF path = <<>> THEN g ELSE green_at(g.slots[Head(path)], Tail(path))

RECURSIVE offset_at(_, _)
offset_at(g, path) ==
    IF path = <<>> THEN 0
    ELSE SumLen(SubSeq(g.slots, 1, Head(path) - 1))
         + offset_at(g.slots[Head(path)], Tail(path))

cursor_green(n) == green_at(n.root, n.path)

cursor_offset(n) == offset_at(n.root, n.path)

cursor_kind(n) == cursor_green(n).kind

cursor_parent(n) ==
    IF n.path = <<>> THEN None ELSE Some(Red(n.root, Front(n.path)))

(* 0-based slot index of the element in its parent; 0 for a root *)
cursor_index(n) == IF n.path = <<>> THEN 0 ELSE Last(n.path) - 1

TextRange(start, end) == [start |-> start, end |-> end]

TextRange_len(r) == r.end - r.start

TextRange_contains_range(outer, inner) ==
    outer.start <= inner.start /\ inner.end <= outer.end

cursor_text_range(n) ==
    TextRange(cursor_offset(n), cursor_offset(n) + cursor_green(n).len)

(* The paths, relative to g, of the tokens of g in document order *)
RECURSIVE token_paths(_)
token_paths(g) ==
    IF g.tag = "Token" THEN << <<>> >>
    ELSE IF g.tag = "Empty" THEN <<>>
    ELSE Flatten([i \in 1..Len(g.slots) |->
            LET sub == token_paths(g.slots[i])
            IN  [j \in 1..Len(sub) |-> <<i>> \o sub[j]]])

cursor_descendants_tokens(n) ==
    LET tp == token_paths(cursor_green(n))
    IN  [j \in 1..Len(tp) |-> Red(n.root, n.path \o tp[j])]

cursor_first_token(n) ==
    LET ts == cursor_descendants_tokens(n)
    IN  IF Len(ts) = 0 THEN None ELSE Some(ts[1])

cursor_last_token(n) ==
    LET ts == cursor_descendants_tokens(n)
    IN  IF Len(ts) = 0 THEN None ELSE Some(ts[Len(ts)])

(* Trivia of a token: a side of the token and the range it covers *)
cursor_leading_trivia(t) ==
    [token |-> t, side |-> "leading",
     range |-> TextRange(cursor_offset(t),
                         cursor_offset(t) + SumLen(cursor_green(t).lead))]

cursor_trailing_trivia(t) ==
    LET end == cursor_offset(t) + cursor_green(t).len
    IN  [token |-> t, side |-> "trailing",
         range |-> TextRange(end - SumLen(cursor_green(t).trail), end)]

SyntaxTrivia_text_range(trivia) == trivia.range

SyntaxTrivia_text(trivia) ==
    LET t == trivia.token
    IN  SubSeq(cursor_green(t).txt,
               trivia.range.start - cursor_offset(t) + 1,
               trivia.range.end - cursor_offset(t))

cursor_token_text_trimmed_range(t) ==
    TextRange(cursor_leading_trivia(t).range.end,
              cursor_trailing_trivia(t).range.start)

(* The text of a token: all of it, and the part between its trivia *)
cursor_token_text(t) == cursor_green(t).txt

cursor_token_text_trimmed(t) ==
    LET r == cursor_token_text_trimmed_range(t)
    IN  SubSeq(cursor_green(t).txt, r.start - cursor_offset(t) + 1,
               r.end - cursor_offset(t))

cursor_text_trimmed_range(n) ==
    LET ft == cursor_first_token(n)
        lt == cursor_last_token(n)
        range == cursor_text_range(n)
        start == IF ft = None THEN range.start
                 ELSE cursor_token_text_trimmed_range(ft[1]).start
        end == IF lt = None THEN range.end
               ELSE cursor_token_text_trimmed_range(lt[1]).end
    IN  TextRange(start, end)

(* The pieces of a trivia, each with the offset it starts at *)
cursor_trivia_pieces(trivia) ==
    LET g == cursor_green(trivia.token)
        ps == IF trivia.side = "leading" THEN g.lead ELSE g.trail
    IN  [i \in 1..Len(ps) |->
            <<trivia.range.start + SumLen(SubSeq(ps, 1, i - 1)), ps[i]>>]

cursor_trivia_offset(trivia) == trivia.range.start

Max(a, b) == IF a >= b THEN a ELSE b
Min(a, b) == IF a <= b THEN a ELSE b

(* SyntaxText: the characters of the tokens of n that fall inside range *)
SyntaxText(n, range) ==
    LET ts == cursor_descendants_tokens(n)
    IN  Flatten([j \in 1..Len(ts) |->
            LET off == cursor_offset(ts[j])
                g == cursor_green(ts[j])
                lo == Max(off, range.start)
                hi == Min(off + g.len, range.end)
            IN  IF lo >= hi THEN <<>> ELSE SubSeq(g.txt, lo - off + 1, hi - off)])

cursor_text(n) == SyntaxText(n, cursor_text_range(n))

cursor_text_trimmed(n) == SyntaxText(n, cursor_text_trimmed_range(n))

(* Sibling navigation: the nearest slot in the given direction that holds an
   node (nodes_only) or a node or token; Empty slots are passed over. *)
RECURSIVE scan_slots(_, _, _, _)
scan_slots(slots, i, step, nodes_only) ==
    IF i < 1 \/ i > Len(slots) THEN 0
    ELSE IF slots[i].tag = "Node" \/ (~nodes_only /\ slots[i].tag = "Token") THEN i
    ELSE scan_slots(slots, i + step, step, nodes_only)

cursor_sibling(n, step, nodes_only) ==
    IF n.path = <<>> THEN None
    ELSE LET p == Front(n.path)
             i == scan_slots(green_at(n.root, p).slots, Last(n.path) + step, step, nodes_only)
         IN  IF i = 0 THEN None ELSE Some(Red(n.root, p \o <<i>>))

cursor_next_sibling(n) == cursor_sibling(n, 1, TRUE)
cursor_prev_sibling(n) == cursor_sibling(n, -1, TRUE)
cursor_next_sibling_or_token(n) == cursor_sibling(n, 1, FALSE)
cursor_prev_sibling_or_token(n) == cursor_sibling(n, -1, FALSE)

cursor_child(n, from, step, nodes_only) ==
    LET i == scan_slots(cursor_green(n).slots, from, step, nodes_only)
    IN  IF i = 0 THEN None ELSE Some(Red(n.root, n.path \o <<i>>))

cursor_first_child(n) == cursor_child(n, 1, 1, TRUE)
cursor_last_child(n) == cursor_child(n, Len(cursor_green(n).slots), -1, TRUE)
cursor_first_child_or_token(n) == cursor_child(n, 1, 1, FALSE)
cursor_last_child_or_token(n) == cursor_child(n, Len(cursor_green(n).slots), -1, FALSE)

(* The children iterators: start at the first child and step to the next
   sibling until there is none. *)
RECURSIVE iter_siblings(_, _)
iter_siblings(next, nodes_only) ==
    IF next = None THEN <<>>
    ELSE <<next[1]>> \o iter_siblings(cursor_sibling(next[1], 1, nodes_only), nodes_only)

cursor_children(n) == iter_siblings(cursor_first_child(n), TRUE)

cursor_children_with_tokens(n) == iter_siblings(cursor_first_child_or_token(n), FALSE)

(* Direction of a sibling walk *)
DirStep(direction) == IF direction = "Next" THEN 1 ELSE -1

(* The elements reached from cur by stepping to the next sibling in one
   direction until there is none, cur included *)
RECURSIVE successors(_, _, _)
successors(cur, step, nodes_only) ==
    IF cur = None THEN <<>>
    ELSE <<cur[1]>> \o successors(cursor_sibling(cur[1], step, nodes_only), step, nodes_only)

(* siblings of a node: the node itself, then its sibling nodes *)
cursor_siblings(n, direction) == successors(Some(n), DirStep(direction), TRUE)

(* siblings_with_tokens of a token: the siblings after (before) the token,
   the token itself not included *)
cursor_token_siblings_with_tokens(t, direction) ==
    successors(cursor_sibling(t, DirStep(direction), FALSE), DirStep(direction), FALSE)

(* A call that fails an assertion or a precondition: the value it leaves
   where a value, and where an Option, was to be returned *)
Panic == [fatal |-> TRUE]

Fatal == <<Panic, Panic>>

(* Slot access by 0-based index: the element of that very slot, None when
   the slot is Empty, a precondition failure past the last slot *)
cursor_element_in_slot(n, slot) ==
    LET slots == cursor_green(n).slots
    IN  IF slot >= Len(slots) THEN Fatal
        ELSE IF slots[slot + 1].tag = "Empty" THEN None
        ELSE Some(Red(n.root, n.path \o <<slot + 1>>))

(* The walk over all slots of the subtree of n, Empty ones included: Enter
   and Leave of every slot in preorder *)
RECURSIVE cursor_preorder_slots(_)
cursor_preorder_slots(n) ==
    LET g == cursor_green(n)
        slot == [tag |-> g.tag, elem |-> n, index |-> cursor_index(n)]
    IN  <<[ev |-> "Enter", slot |-> slot]>>
        \o (IF g.tag = "Node"
            THEN Flatten([i \in 1..Len(g.slots) |->
                     cursor_preorder_slots(Red(n.root, n.path \o <<i>>))])
            ELSE <<>>)
        \o <<[ev |-> "Leave", slot |-> slot]>>

(* TokenAtOffset: no token, a single token, or the two tokens an offset
   lies between *)
TokenAtOffset_None == [tag |-> "None", tokens |-> <<>>]
TokenAtOffset_Single(t) == [tag |-> "Single", tokens |-> <<t>>]
TokenAtOffset_Between(l, r) == [tag |-> "Between", tokens |-> <<l, r>>]

(* The non-empty children of n whose range reaches the offset *)
children_at_offset(n, offset) ==
    SelectSeq(cursor_children_with_tokens(n),
              LAMBDA c : /\ cursor_green(c).len > 0
                         /\ cursor_text_range(c).start <= offset
                         /\ offset <= cursor_text_range(c).end)

(* token_at_offset below an element: a token answers with itself, a node
   with the answer of the one child at the offset, or with the two tokens
   on either side when the offset is where two children meet *)
RECURSIVE element_token_at_offset(_, _)
element_token_at_offset(e, offset) ==
    LET range == cursor_text_range(e)
    IN  IF offset < range.start \/ offset > range.end THEN Panic
        ELSE IF cursor_green(e).tag = "Token" THEN TokenAtOffset_Single(e)
        ELSE IF range.start = range.end THEN TokenAtOffset_None
        ELSE LET cs == children_at_offset(e, offset)
             IN  IF Len(cs) = 0 \/ Len(cs) > 2 THEN Panic
                 ELSE IF Len(cs) = 1 THEN element_token_at_offset(cs[1], offset)
                 ELSE LET left == element_token_at_offset(cs[1], offset)
                          right == element_token_at_offset(cs[2], offset)
                      IN  IF left.tag = "Single" /\ right.tag = "Single"
                          THEN TokenAtOffset_Between(left.tokens[1], right.tokens[1])
                          ELSE Panic

(* Preorder and PreorderWithTokens: the iterator holds the node it started
   at, the event it yields next and whether skip_subtree was asked for *)
WalkEvent_Enter(e) == [ev |-> "Enter", elem |-> e]
WalkEvent_Leave(e) == [ev |-> "Leave", elem |-> e]

cursor_preorder(n, nodes_only) ==
    [start |-> n, next |-> Some(WalkEvent_Enter(n)), skip_subtree |-> FALSE,
     nodes_only |-> nodes_only]

cursor_preorder_skip_subtree(it) == [it EXCEPT !.skip_subtree = TRUE]

(* a pending Enter of a first child becomes the Leave of its parent *)
cursor_preorder_do_skip(it) ==
    IF it.next # None /\ it.next[1].ev = "Enter"
    THEN [it EXCEPT !.next = Some(WalkEvent_Leave(cursor_parent(it.next[1].elem)[1]))]
    ELSE it

(* next(): the pending event is yielded and the one after it prepared *)
cursor_preorder_next(it) ==
    LET cur == IF it.skip_subtree
               THEN [cursor_preorder_do_skip(it) EXCEPT !.skip_subtree = FALSE]
               ELSE it
    IN  IF cur.next = None THEN [item |-> None, iter |-> cur]
        ELSE LET e == cur.next[1].elem
                 after ==
                     IF cur.next[1].ev = "Enter"
                     THEN LET child == cursor_child(e, 1, 1, cur.nodes_only)
                          IN  IF cursor_green(e).tag = "Token" \/ child = None
                              THEN Some(WalkEvent_Leave(e))
                              ELSE Some(WalkEvent_Enter(child[1]))
                     ELSE IF e = cur.start THEN None
                     ELSE LET sibling == cursor_sibling(e, 1, cur.nodes_only)
                          IN  IF sibling # None THEN Some(WalkEvent_Enter(sibling[1]))
                              ELSE IF cursor_parent(e) = None THEN None
                              ELSE Some(WalkEvent_Leave(cursor_parent(e)[1]))
             IN  [item |-> cur.next, iter |-> [cur EXCEPT !.next = after]]

(* How a range lies to another: wholly before it, wholly after it, or
   neither *)
TextRange_ordering(a, b) ==
    IF a.end <= b.start THEN "Less"
    ELSE IF b.end <= a.start THEN "Greater"
    ELSE "Equal"

(* Binary search among cs[lo..hi-1], which are in text order, for an element
   that lies neither before nor after the range; 0 when there is none *)
RECURSIVE binary_search_by(_, _, _, _)
binary_search_by(cs, range, lo, hi) ==
    IF lo >= hi THEN 0
    ELSE LET mid == lo + ((hi - lo) \div 2)
             cmp == TextRange_ordering(cursor_text_range(cs[mid]), range)
         IN  IF cmp = "Less" THEN binary_search_by(cs, range, mid + 1, hi)
             ELSE IF cmp = "Greater" THEN binary_search_by(cs, range, lo, mid)
             ELSE mid

cursor_child_or_token_at_range(n, range) ==
    LET cs == cursor_children_with_tokens(n)
        i == binary_search_by(cs, range, 1, Len(cs) + 1)
    IN  IF i = 0 THEN None ELSE Some(cs[i])

(* ancestors: the chain of parents, from a first node on *)
RECURSIVE cursor_parents_from(_)
cursor_parents_from(first) ==
    IF first = None THEN <<>>
    ELSE <<first[1]>> \o cursor_parents_from(cursor_parent(first[1]))

cursor_ancestors(n) == cursor_parents_from(Some(n))

cursor_token_ancestors(t) == cursor_parents_from(cursor_parent(t))

cursor_token_at_offset(n, offset) == element_token_at_offset(n, offset)

(* covering_element: from the node down, as long as a child contains the
   range; where several children contain an empty range any of them may be
   taken, so the value is the set of elements the descent can end at *)
RECURSIVE covering_descent(_, _)
covering_descent(e, range) ==
    LET cs == cursor_children_with_tokens(e)
        inner == {i \in 1..Len(cs) :
                    TextRange_contains_range(cursor_text_range(cs[i]), range)}
    IN  IF cursor_green(e).tag = "Token" \/ inner = {} THEN {e}
        ELSE UNION {covering_descent(cs[i], range) : i \in inner}

cursor_covering_element(n, range) ==
    IF ~TextRange_contains_range(cursor_text_range(n), range) THEN {Panic}
    ELSE covering_descent(n, range)

----------------------------------------------------------------------------
(* Typed facade over the cursor, for RawLanguage *)

kind_from_raw(raw) == raw

kind_to_raw(kind) == kind

(* element_in_slot passing over empty slots as sibling navigation does *)
element_in_slot_skipping(n, slot) == cursor_child(n, slot + 1, 1, FALSE)

element_in_slot(n, slot) == cursor_element_in_slot(n, slot)

kind(n) == kind_from_raw(cursor_kind(n))

(* text delegating to the trimmed text of the cursor *)
text_trimmed_for_text(n) == cursor_text_trimmed(n)

text(n) == cursor_text(n)

(* text_trimmed delegating to the full text of the cursor *)
text_for_text_trimmed(n) == cursor_text(n)

text_trimmed(n) == cursor_text_trimmed(n)

(* text_range measured from the start of the node rather than of the tree *)
text_range_from_zero(n) == TextRange(0, TextRange_len(cursor_text_range(n)))

text_range(n) == cursor_text_range(n)

(* text_trimmed_range delegating to the full range of the cursor *)
text_range_for_trimmed_range(n) == cursor_text_range(n)

text_trimmed_range(n) == cursor_text_trimmed_range(n)

first_token(n) == cursor_first_token(n)

last_token(n) == cursor_last_token(n)

first_leading_trivia(n) ==
    IF cursor_first_token(n) = None THEN None
    ELSE Some(cursor_leading_trivia(cursor_first_token(n)[1]))

last_trailing_trivia(n) ==
    IF cursor_last_token(n) = None THEN None
    ELSE Some(cursor_trailing_trivia(cursor_last_token(n)[1]))

parent(n) == cursor_parent(n)

children(n) == cursor_children(n)

children_with_tokens(n) == cursor_children_with_tokens(n)

first_child_or_token(n) == cursor_first_child_or_token(n)

last_child_or_token(n) == cursor_last_child_or_token(n)

(* next_sibling delegating to the sibling walk that also stops at tokens *)
next_sibling_or_token_for_next_sibling(n) == cursor_next_sibling_or_token(n)

next_sibling(n) == cursor_next_sibling(n)

prev_sibling(n) == cursor_prev_sibling(n)

(* siblings leaving out the node it starts from *)
siblings_without_self(n, direction) ==
    successors(cursor_sibling(n, DirStep(direction), TRUE), DirStep(direction), TRUE)

siblings(n, direction) == cursor_siblings(n, direction)

next_sibling_or_token(n) == cursor_next_sibling_or_token(n)

prev_sibling_or_token(n) == cursor_prev_sibling_or_token(n)

preorder(n) == cursor_preorder(n, TRUE)

preorder_with_tokens(n) == cursor_preorder(n, FALSE)

(* skip_subtree that leaves the traversal as it is *)
Preorder_skip_nothing(it) == it

Preorder_skip_subtree(it) == cursor_preorder_skip_subtree(it)

Preorder_next(it) == cursor_preorder_next(it)

PreorderWithTokens_skip_subtree(it) == cursor_preorder_skip_subtree(it)

PreorderWithTokens_next(it) == cursor_preorder_next(it)

(* token_at_offset answering with the left token alone where two tokens meet *)
token_at_offset_left(n, offset) ==
    LET r == cursor_token_at_offset(n, offset)
    IN  IF r # Panic /\ r.tag = "Between" THEN TokenAtOffset_Single(r.tokens[1]) ELSE r

(* child_or_token_at_range answering with the first child whatever the range *)
child_or_token_at_range_first(n, range) == cursor_first_child_or_token(n)

child_or_token_at_range(n, range) == cursor_child_or_token_at_range(n, range)

ancestors(n) == cursor_ancestors(n)

token_at_offset_clamped(n, offset) ==
    LET range == cursor_text_range(n)
    IN  cursor_token_at_offset(n, Max(range.start, Min(offset, range.end)))

token_at_offset(n, offset) == cursor_token_at_offset(n, offset)

covering_element_of_self(n, range) ==
    IF cursor_covering_element(n, range) = {Panic} THEN {Panic} ELSE {n}

covering_element(n, range) == cursor_covering_element(n, range)

(* SyntaxToken *)
SyntaxToken_kind(t) == kind_from_raw(cursor_kind(t))

SyntaxToken_text_range(t) == cursor_text_range(t)

(* SyntaxElement::text_range dispatches on the element being a node or a token *)
SyntaxElement_text_range(e) ==
    IF cursor_green(e).tag = "Node" THEN text_range(e) ELSE SyntaxToken_text_range(e)

SyntaxToken_text_trimmed_range(t) == cursor_token_text_trimmed_range(t)

(* index counting the non-empty elements before the token instead of the
   slots *)
SyntaxToken_index_among_children(t) ==
    Cardinality({j \in 1..(Last(t.path) - 1) :
        green_at(t.root, Front(t.path)).slots[j].tag # "Empty"})

SyntaxToken_index(t) == cursor_index(t)

SyntaxToken_text(t) == cursor_token_text(t)

SyntaxToken_text_trimmed(t) == cursor_token_text_trimmed(t)

SyntaxToken_parent(t) == cursor_parent(t)

SyntaxToken_ancestors(t) == cursor_token_ancestors(t)

(* SyntaxElement::parent dispatches on the element being a node or a token *)
SyntaxElement_parent(e) ==
    IF cursor_green(e).tag = "Node" THEN parent(e) ELSE SyntaxToken_parent(e)

(* iter::successors(first, SyntaxNode::parent) *)
RECURSIVE iter_successors_parent(_)
iter_successors_parent(first) ==
    IF first = None THEN <<>>
    ELSE <<first[1]>> \o iter_successors_parent(parent(first[1]))

(* ancestors starting at the parent for a node as well *)
SyntaxElement_ancestors_from_parent(e) == iter_successors_parent(SyntaxElement_parent(e))

SyntaxElement_ancestors(e) ==
    LET first == IF cursor_green(e).tag = "Node" THEN Some(e) ELSE SyntaxToken_parent(e)
    IN  iter_successors_parent(first)

SyntaxToken_next_sibling_or_token(t) == cursor_next_sibling_or_token(t)

SyntaxToken_prev_sibling_or_token(t) == cursor_prev_sibling_or_token(t)

(* siblings_with_tokens starting at the token itself *)
SyntaxToken_siblings_with_tokens_from_self(t, direction) ==
    successors(Some(t), DirStep(direction), FALSE)

SyntaxToken_siblings_with_tokens(t, direction) ==
    cursor_token_siblings_with_tokens(t, direction)

SyntaxToken_leading_trivia(t) == cursor_leading_trivia(t)

(* trailing_trivia handing out the leading side *)
SyntaxToken_leading_for_trailing(t) == cursor_leading_trivia(t)

SyntaxToken_trailing_trivia(t) == cursor_trailing_trivia(t)

(* SyntaxTriviaPiece: the trivia it is part of, its offset and its
   descriptor *)
SyntaxTriviaPiecesIterator_next(trivia, item) ==
    [raw |-> trivia, offset |-> item[1], trivia |-> item[2]]

SyntaxTrivia_pieces(trivia) ==
    LET items == cursor_trivia_pieces(trivia)
    IN  [i \in 1..Len(items) |-> SyntaxTriviaPiecesIterator_next(trivia, items[i])]

SyntaxTriviaPiece_text_len(piece) == TriviaPiece_text_len(piece.trivia)

(* text slicing the trivia text from its start, whatever the offset of the
   piece *)
SyntaxTriviaPiece_text_from_start(piece) ==
    LET txt == SyntaxTrivia_text(piece.raw)
        start == 0
        end == start + SyntaxTriviaPiece_text_len(piece)
    IN  SubSeq(txt, start + 1, end)

SyntaxTriviaPiece_text(piece) ==
    LET txt == SyntaxTrivia_text(piece.raw)
        start == piece.offset - cursor_trivia_offset(piece.raw)
        end == start + SyntaxTriviaPiece_text_len(piece)
    IN  SubSeq(txt, start + 1, end)

SyntaxTriviaPiece_text_range(piece) ==
    TextRange(piece.offset, piece.offset + SyntaxTriviaPiece_text_len(piece))

as_whitespace(piece) ==
    IF piece.trivia.tag = "Whitespace" THEN Some(piece) ELSE None

as_comments(piece) ==
    IF piece.trivia.tag = "Comments" THEN Some(piece) ELSE None

(* Debug rendering.  A text is a sequence of characters. *)
print_debug_str(txt) ==
    IF Len(txt) < 25 THEN txt ELSE SubSeq(txt, 1, 21) \o <<" ", ".", ".", ".">>

print_debug_trivia_piece(piece) ==
    [tag |-> piece.trivia.tag, txt |-> print_debug_str(SyntaxTriviaPiece_text(piece))]

SyntaxToken_Debug(t) ==
    LET lead == SyntaxTrivia_pieces(SyntaxToken_leading_trivia(t))
        trail == SyntaxTrivia_pieces(SyntaxToken_trailing_trivia(t))
    IN  [kind |-> SyntaxToken_kind(t), range |-> SyntaxToken_text_range(t),
         txt |-> SyntaxToken_text_trimmed(t),
         leading |-> [i \in 1..Len(lead) |-> print_debug_trivia_piece(lead[i])],
         trailing |-> [i \in 1..Len(trail) |-> print_debug_trivia_piece(trail[i])]]

(* {:?}: kind@range *)
SyntaxNode_Debug(n) == [kind |-> kind(n), range |-> text_range(n)]

(* {:#?}: one line per slot of the subtree, led by "  " written level times
   (indent counts the spaces); the lines written and the level after the
   events evs, from level on *)
RECURSIVE Debug_walk(_, _)
Debug_walk(evs, level) ==
    IF evs = <<>> THEN [lines |-> <<>>, level |-> level]
    ELSE LET e == Head(evs)
         IN  IF e.ev = "Enter"
             THEN LET line == [indent |-> 2 * level, index |-> e.slot.index,
                               form |-> e.slot.tag,
                               body |-> IF e.slot.tag = "Node"
                                        THEN SyntaxNode_Debug(e.slot.elem)
                                        ELSE IF e.slot.tag = "Token"
                                        THEN SyntaxToken_Debug(e.slot.elem)
                                        ELSE [empty |-> TRUE]]
                      rest == Debug_walk(Tail(evs), level + 1)
                  IN  [lines |-> <<line>> \o rest.lines, level |-> rest.level]
             ELSE Debug_walk(Tail(evs), level - 1)

(* the dump walking the nodes and tokens only, as preorder_with_tokens does *)
SyntaxNode_Debug_alternate_with_tokens(n) ==
    LET evs == SelectSeq(cursor_preorder_slots(n), LAMBDA e : e.slot.tag # "Empty")
        out == Debug_walk(evs, 0)
    IN  IF out.level = 0 THEN out.lines ELSE Fatal

SyntaxNode_Debug_alternate(n) ==
    LET out == Debug_walk(cursor_preorder_slots(n), 0)
    IN  IF out.level = 0 THEN out.lines ELSE Fatal

(* SyntaxList: list is None or Some(node) *)
SyntaxList_new(node) ==
    IF kind(node) = list_kind THEN [list |-> Some(node)] ELSE Panic

(* into_list wrapping the node whatever its kind *)
into_list_unchecked(n) == Some(SyntaxList_new(n))

into_list(n) ==
    IF kind(n) = list_kind THEN Some(SyntaxList_new(n)) ELSE None

(* #[derive(Default)]: the list without a node *)
SyntaxList_default == [list |-> None]

(* len counting the elements the iterator yields instead of the slots *)
SyntaxList_len_of_iter(l) ==
    IF l.list # None THEN Len(cursor_children_with_tokens(l.list[1])) ELSE 0

SyntaxList_len(l) ==
    IF l.list # None THEN Len(cursor_green(l.list[1]).slots) ELSE 0

SyntaxList_iter(l) ==
    IF l.list # None THEN children_with_tokens(l.list[1]) ELSE <<>>

(* is_empty holding only of a list that has a node *)
SyntaxList_is_empty_of_node(l) == l.list # None /\ SyntaxList_len(l) = 0

SyntaxList_is_empty(l) == SyntaxList_len(l) = 0

(* first reading slot 0 instead of the first child *)
SyntaxList_first_in_slot(l) ==
    IF l.list # None THEN element_in_slot(l.list[1], 0) ELSE None

SyntaxList_first(l) ==
    IF l.list # None THEN first_child_or_token(l.list[1]) ELSE None

SyntaxList_last(l) ==
    IF l.list # None THEN last_child_or_token(l.list[1]) ELSE None

----------------------------------------------------------------------------
(* Mutation layer.  A tree is a root green value and its mode; a handle names
   a tree and the path of an element in it.  Every call maps the trees alive
   to the trees alive afterwards. *)

Tree(g, mutable) == [green |-> g, mutable |-> mutable, state |-> "root"]

H(t, path) == [tree |-> t, path |-> path]

Deref(ts, h) == Red(ts[h.tree].green, h.path)

Outcome(ts, h, panic, removed, inserted) ==
    [trees |-> ts, handle |-> h, panic |-> panic,
     removed |-> removed, inserted |-> inserted]

(* Rebuild the spine above path with new in place of the element there *)
RECURSIVE replace_at(_, _, _)
replace_at(g, path, new) ==
    IF path = <<>> THEN new
    ELSE GreenNode(g.kind,
            [g.slots EXCEPT ![Head(path)] = replace_at(@, Tail(path), new)])

RemoveAt(s, i) == SubSeq(s, 1, i - 1) \o SubSeq(s, i + 1, Len(s))

cursor_clone_subtree(ts, h) ==
    Outcome(Append(ts, Tree(cursor_green(Deref(ts, h)), FALSE)),
            H(Len(ts) + 1, <<>>), FALSE, <<>>, <<>>)

cursor_clone_for_update(ts, h) ==
    Outcome(Append(ts, Tree(ts[h.tree].green, TRUE)),
            H(Len(ts) + 1, h.path), FALSE, <<>>, <<>>)

cursor_detach(ts, h) ==
    IF ~ts[h.tree].mutable THEN Outcome(ts, h, TRUE, <<>>, <<>>)
    ELSE IF h.path = <<>> THEN Outcome(ts, h, FALSE, <<>>, <<>>)
    ELSE LET root == ts[h.tree].green
             pp == Front(h.path)
             i == Last(h.path)
             pg == green_at(root, pp)
             slots == IF pg.kind = list_kind
                      THEN RemoveAt(pg.slots, i)
                      ELSE [pg.slots EXCEPT ![i] = EmptySlot]
             ts1 == [ts EXCEPT ![h.tree].green =
                        replace_at(root, pp, GreenNode(pg.kind, slots))]
         IN  Outcome(Append(ts1, Tree(green_at(root, h.path), TRUE)),
                     H(Len(ts) + 1, <<>>), FALSE, <<>>, <<>>)

(* Slot positions of the non-empty slots, in order *)
ChildSlots(g) ==
    SelectSeq([i \in 1..Len(g.slots) |-> i], LAMBDA i : g.slots[i].tag # "Empty")

(* to_delete = from..to counts positions among the children; the policy for
   the Empty slots of the node is not fixed by the specification: they are
   left where they are, the run of children is cut out of the slots and the
   new elements are put where the run started. *)
cursor_splice_children(ts, h, from, to, ins) ==
    IF ~ts[h.tree].mutable THEN Outcome(ts, h, TRUE, <<>>, <<>>)
    ELSE LET root == ts[h.tree].green
             g == green_at(root, h.path)
             C == ChildSlots(g)
             cut == {C[k] : k \in (from + 1)..to}
             point == IF from < Len(C) THEN C[from + 1] ELSE Len(g.slots) + 1
             rest == SelectSeq([i \in 1..(Len(g.slots) - point + 1) |-> point + i - 1],
                               LAMBDA i : i \notin cut)
             slots == SubSeq(g.slots, 1, point - 1)
                      \o [k \in 1..Len(ins) |-> ts[ins[k].tree].green]
                      \o [k \in 1..Len(rest) |-> g.slots[rest[k]]]
             ts1 == [t \in 1..Len(ts) |->
                        IF t = h.tree
                        THEN [ts[t] EXCEPT !.green =
                                 replace_at(root, h.path, GreenNode(g.kind, slots))]
                        ELSE IF \E k \in 1..Len(ins) : ins[k].tree = t
                        THEN [ts[t] EXCEPT !.state = "attached"]
                        ELSE ts[t]]
             gone == [k \in 1..(to - from) |-> Tree(g.slots[C[from + k]], TRUE)]
         IN  Outcome(ts1 \o gone, h, FALSE,
                     [k \in 1..(to - from) |-> H(Len(ts) + k, <<>>)],
                     [k \in 1..Len(ins) |-> H(h.tree, h.path \o <<point + k - 1>>)])

(* clone_subtree handing back the node it was called on *)
clone_subtree_same_node(ts, h) == Outcome(ts, h, FALSE, <<>>, <<>>)

clone_subtree(ts, h) == cursor_clone_subtree(ts, h)

(* clone_for_update switching the tree to mutable mode without copying it *)
clone_for_update_in_place(ts, h) ==
    Outcome([ts EXCEPT ![h.tree].mutable = TRUE], h, FALSE, <<>>, <<>>)

clone_for_update(ts, h) == cursor_clone_for_update(ts, h)

(* detach returning without calling the cursor *)
detach_nothing(ts, h) == Outcome(ts, h, FALSE, <<>>, <<>>)

detach(ts, h) == cursor_detach(ts, h)

SyntaxToken_detach(ts, h) == cursor_detach(ts, h)

(* SyntaxElement::detach dispatches on the element being a node or a token *)
SyntaxElement_detach(ts, h) ==
    IF cursor_green(Deref(ts, h)).tag = "Node"
    THEN detach(ts, h)
    ELSE SyntaxToken_detach(ts, h)

Reverse(q) == [k \in 1..Len(q) |-> q[Len(q) + 1 - k]]

(* splice_children collecting to_insert in reverse *)
splice_children_reversed(ts, h, from, to, to_insert) ==
    cursor_splice_children(ts, h, from, to, Reverse(to_insert))

(* splice_children on a tree the cursor does not check the mode of *)
splice_children_unchecked(ts, h, from, to, to_insert) ==
    IF ts[h.tree].mutable
    THEN cursor_splice_children(ts, h, from, to, to_insert)
    ELSE Outcome(ts, h, FALSE, <<>>, <<>>)

splice_children(ts, h, from, to, to_insert) ==
    LET raw == [k \in 1..Len(to_insert) |-> to_insert[k]]
    IN  cursor_splice_children(ts, h, from, to, raw)

----------------------------------------------------------------------------
(* The pattern parser of rslint_parser (syntax/pat.rs) and the parts of the
   Parser it drives: the token source, the event list with its markers, the
   errors and the parser state. *)

(* The tokens of an input: k, source text and length of the text *)
Tok(k, src, len) == [kind |-> k, src |-> src, len |-> len]

(* The state flags pat.rs reads, and the names recorded so far *)
ParserState(record, object, generator, async, strict) ==
    [should_record_names |-> record, allow_object_expr |-> object,
     in_generator |-> generator, in_async |-> async, strict |-> strict,
     name_map |-> {}]

NoParse == [fn |-> "none", pos |-> 0, name_map |-> {}, ret |-> <<>>,
            returned |-> FALSE]

(* Parser::new: at the first token, no event, no error *)
Parser_new(toks, state) ==
    [toks |-> toks, pos |-> 1, events |-> <<>>, markers |-> <<>>,
     errors |-> <<>>, state |-> state, stuck |-> FALSE, decls |-> <<>>,
     call |-> NoParse]

Parser_idle == Parser_new(<<>>, ParserState(FALSE, FALSE, FALSE, FALSE, FALSE))

(* The outcome of a parsing function: the parser after it and what it returns *)
Ret(p, r) == [p |-> p, r |-> r]

Parser_nth(p, n) ==
    IF p.pos + n > Len(p.toks) THEN "EOF" ELSE p.toks[p.pos + n].kind

Parser_cur(p) == Parser_nth(p, 0)

Parser_cur_src(p) == IF p.pos > Len(p.toks) THEN "" ELSE p.toks[p.pos].src

RECURSIVE Parser_offset(_, _)
Parser_offset(toks, i) ==
    IF i <= 1 THEN 0 ELSE Parser_offset(toks, i - 1) + toks[i - 1].len

(* cur_tok().range: the range of the current token in the source; the EOF
   token is empty and sits at the end *)
Parser_cur_range(p) ==
    LET s == Parser_offset(p.toks, IF p.pos > Len(p.toks) THEN Len(p.toks) + 1 ELSE p.pos)
    IN  IF p.pos > Len(p.toks) THEN TextRange(s, s)
        ELSE TextRange(s, s + p.toks[p.pos].len)

Parser_at(p, k) == Parser_cur(p) = k

Parser_at_ts(p, ts) == Parser_cur(p) \in ts

Event(tag, k) == [tag |-> tag, kind |-> k, fp |-> 0]

(* bump_remap: the current token goes to the events under the given k;
   nothing is consumed at EOF *)
Parser_bump_remap(p, k) ==
    IF Parser_cur(p) = "EOF" THEN p
    ELSE [p EXCEPT !.events = Append(@, Event("Token", k)), !.pos = @ + 1]

Parser_bump_any(p) == Parser_bump_remap(p, Parser_cur(p))

Parser_eat(p, k) ==
    IF Parser_at(p, k) THEN Ret(Parser_bump_any(p), TRUE) ELSE Ret(p, FALSE)

ParseError(code, primary, secondary) ==
    [code |-> code, primary |-> primary, secondary |-> secondary]

Parser_error(p, err) == [p EXCEPT !.errors = Append(@, err)]

(* expect_required: the token is consumed, or a missing slot is recorded
   and an error reported *)
Parser_expect_required(p, k) ==
    IF Parser_at(p, k) THEN Parser_bump_any(p)
    ELSE Parser_error([p EXCEPT !.events = Append(@, Event("Missing", "MISSING"))],
                      ParseError("expected", Parser_cur_range(p), None))

(* Markers: start() leaves a tombstone Start event and hands out a marker for
   it; complete() gives the event its k and adds the Finish; abandon()
   drops the event when it is still the last one and leaves the tombstone
   otherwise.  markers counts, per marker handed out, the complete() and
   abandon() calls made on it. *)
Parser_start(p) ==
    LET q == [p EXCEPT !.events = Append(@, Event("Start", "TOMBSTONE")),
                       !.markers = Append(@, 0)]
    IN  Ret(q, [id |-> Len(q.markers), pos |-> Len(q.events)])

CompletedMarker(start_pos, finish_pos, k) ==
    [start_pos |-> start_pos, finish_pos |-> finish_pos, kind |-> k]

Marker_complete(p, m, k) ==
    LET q == [p EXCEPT !.events = Append([@ EXCEPT ![m.pos].kind = k],
                                         Event("Finish", "FINISH")),
                       !.markers[m.id] = @ + 1]
    IN  Ret(q, CompletedMarker(m.pos, Len(q.events), k))

Marker_abandon(p, m) ==
    [p EXCEPT !.events = IF m.pos = Len(@) THEN SubSeq(@, 1, Len(@) - 1) ELSE @,
              !.markers[m.id] = @ + 1]

(* precede: a new marker whose node will be the parent of the completed one *)
CompletedMarker_precede(p, cm) ==
    LET s == Parser_start(p)
    IN  Ret([s.p EXCEPT !.events[cm.start_pos].fp = s.r.pos - cm.start_pos], s.r)

CompletedMarker_change_kind(p, cm, k) ==
    Ret([p EXCEPT !.events[cm.start_pos].kind = k],
        [cm EXCEPT !.kind = k])

(* process: the events as the calls the tree sink receives.  A Start that
   has a forward parent starts the parent first; tombstones are passed over. *)
SinkCall(op, k) == [op |-> op, kind |-> k]

RECURSIVE forward_parents(_, _)
forward_parents(events, i) ==
    LET rest == IF events[i].fp = 0 THEN <<>>
                ELSE forward_parents(events, i + events[i].fp)
    IN  IF events[i].kind = "TOMBSTONE" THEN rest ELSE <<i>> \o rest

RECURSIVE process_from(_, _, _)
process_from(events, i, taken) ==
    IF i > Len(events) THEN <<>>
    ELSE LET e == events[i]
             fps == IF e.tag = "Start" /\ i \notin taken
                    THEN forward_parents(events, i) ELSE <<>>
             out == CASE e.tag = "Start" ->
                             [k \in 1..Len(fps) |->
                                 SinkCall("start_node", events[fps[Len(fps) + 1 - k]].kind)]
                      [] e.tag = "Finish" -> <<SinkCall("finish_node", e.kind)>>
                      [] e.tag = "Token" -> <<SinkCall("token", e.kind)>>
                      [] OTHER -> <<SinkCall("missing", e.kind)>>
         IN  out \o process_from(events, i + 1,
                                 taken \cup {fps[k] : k \in 1..Len(fps)})

process(events) == process_from(events, 1, {})

(* The parsing functions pat.rs calls into, of expr.rs, object.rs and the
   recovery of the parser. *)

(* reference_identifier_expression: an identifier token becomes a
   JS_REFERENCE_IDENTIFIER_EXPRESSION node, anything else is an error *)
reference_identifier_expression(p) ==
    IF Parser_at_ts(p, {"ident", "yield", "await"})
    THEN LET m == Parser_start(p)
             c == Marker_complete(Parser_bump_remap(m.p, "ident"), m.r,
                                  "JS_REFERENCE_IDENTIFIER_EXPRESSION")
         IN  Ret(c.p, Some(c.r))
    ELSE Ret(Parser_error(p, ParseError("expected_identifier", Parser_cur_range(p), None)),
             None)

is_keyword(k) == k \in {"this", "yield", "await", "default"}

(* identifier_name: an identifier or keyword token becomes a NAME node *)
identifier_name(p) ==
    LET m == Parser_start(p)
    IN  IF is_keyword(Parser_cur(p)) \/ Parser_cur(p) = "ident"
        THEN LET c == Marker_complete(Parser_bump_remap(m.p, "ident"), m.r, "NAME")
             IN  Ret(c.p, Some(c.r))
        ELSE Ret(Marker_abandon(
                     Parser_error(m.p, ParseError("expected_identifier_or_keyword",
                                                  Parser_cur_range(p), None)), m.r),
                 None)

(* literal: a number token becomes a LITERAL node *)
literal(p) ==
    LET m == Parser_start(p)
        c == Marker_complete(Parser_bump_any(m.p), m.r, "LITERAL")
    IN  Ret(c.p, Some(c.r))

(* object_prop_name: a literal key, or an identifier name *)
object_prop_name(p, binding) ==
    IF Parser_at(p, "number") THEN literal(p) ELSE identifier_name(p)

(* SingleTokenParseRecovery::recover: the error is reported; a token of the
   recovery set, or the end of the input, is left where it is, any other
   token is consumed into a node of the unknown k *)
SingleTokenParseRecovery_recover(p, recovery, unknown_node_kind, err) ==
    LET q == Parser_error(p, err)
    IN  IF Parser_at_ts(q, recovery) \/ Parser_at(q, "EOF") THEN q
        ELSE LET m == Parser_start(q)
             IN  Marker_complete(Parser_bump_any(m.p), m.r, unknown_node_kind).p

EXPR_RECOVERY_SET == {"[", "]", "{", "}"}

(* lhs_expr and assign_expr for the expressions of one token: an identifier,
   this or a number is an expression; at any other token an error is
   reported and the token recovered from *)
primary_expr(p) ==
    CASE Parser_at_ts(p, {"ident", "yield", "await"}) ->
             reference_identifier_expression(p)
      [] Parser_at(p, "number") -> literal(p)
      [] Parser_at(p, "this") ->
             LET m == Parser_start(p)
                 c == Marker_complete(Parser_bump_any(m.p), m.r, "THIS_EXPR")
             IN  Ret(c.p, Some(c.r))
      [] OTHER ->
             Ret(SingleTokenParseRecovery_recover(
                     p, EXPR_RECOVERY_SET, "ERROR",
                     ParseError("expected_expression", Parser_cur_range(p), None)),
                 None)

lhs_expr(p) == primary_expr(p)

assign_expr(p) == primary_expr(p)

(* pat.rs *)

(* The names a let or const declaration records, as pattern() does for an
   identifier while should_record_names is set *)
record_name_overwriting(p) ==
    IF Parser_cur_src(p) = "let"
    THEN Parser_error(p, ParseError("let_as_name", Parser_cur_range(p), None))
    ELSE [p EXCEPT !.state.name_map =
              {e \in @ : e.name # Parser_cur_src(p)}
              \cup {[name |-> Parser_cur_src(p), range |-> Parser_cur_range(p)]}]

record_name(p) ==
    LET string == Parser_cur_src(p)
        existing == {e \in p.state.name_map : e.name = string}
    IN  IF string = "let"
        THEN Parser_error(p, ParseError("let_as_name", Parser_cur_range(p), None))
        ELSE IF existing # {}
        THEN Parser_error(p, ParseError("duplicate_declaration", Parser_cur_range(p),
                                        Some((CHOOSE e \in existing : TRUE).range)))
        ELSE [p EXCEPT !.state.name_map =
                  {e \in @ : e.name # string}
                  \cup {[name |-> string, range |-> Parser_cur_range(p)]}]

(* What one run of the identifier branch of pattern() did: the name and its
   range, the names recorded before and after, the errors it reported *)
Decl(p, q) ==
    [name |-> Parser_cur_src(p), range |-> Parser_cur_range(p),
     recording |-> p.state.should_record_names,
     before |-> p.state.name_map, after |-> q.state.name_map,
     errors |-> SubSeq(q.errors, Len(p.errors) + 1, Len(q.errors))]

binding_identifier(p) ==
    LET p1 == IF Parser_at(p, "yield") /\ p.state.in_generator
              THEN Parser_error(p, ParseError("yield_in_generator", Parser_cur_range(p), None))
              ELSE p
        p2 == IF Parser_at(p, "await") /\ p.state.in_async
              THEN Parser_error(p1, ParseError("await_in_async", Parser_cur_range(p), None))
              ELSE p1
        illegal == p.state.strict /\ Parser_cur_src(p) \in {"eval", "arguments", "yield"}
        p3 == IF illegal
              THEN Parser_error(p2, ParseError("strict_mode_name", Parser_cur_range(p), None))
              ELSE p2
        kind_to_change ==
            IF \/ Parser_at(p, "yield") /\ p.state.in_generator
               \/ Parser_at(p, "await") /\ p.state.in_async
               \/ illegal
            THEN "JS_UNKNOWN_PATTERN" ELSE "NAME"
        m == reference_identifier_expression(p3)
    IN  IF m.r = None THEN m
        ELSE LET c == CompletedMarker_change_kind(m.p, m.r[1], kind_to_change)
             IN  Ret(c.p, Some(c.r))

opt_binding_identifier(p) ==
    IF Parser_at_ts(p, {"ident", "yield", "await"})
    THEN binding_identifier(p)
    ELSE Ret(p, None)

SomeOf(c) == Ret(c.p, Some(c.r))

(* pattern: the arm of `this` as a parameter *)
pattern_this(p) ==
    LET m == Parser_start(p)
        m_name == Parser_start(m.p)
        c_name == Marker_complete(Parser_bump_remap(m_name.p, "ident"),
                                  m_name.r, "NAME")
    IN  SomeOf(Marker_complete(c_name.p, m.r, "SINGLE_PATTERN"))

(* pattern: the arm of an assignment target *)
pattern_assignment(p) ==
    LET m == Parser_start(p)
        expr == lhs_expr(m.p)
    IN  IF expr.r = None
        THEN Ret(Marker_abandon(expr.p, m.r), None)
        ELSE LET complete ==
                     IF expr.r[1].kind = "JS_REFERENCE_IDENTIFIER_EXPRESSION"
                     THEN CompletedMarker_change_kind(expr.p, expr.r[1], "NAME")
                     ELSE Ret(expr.p, expr.r[1])
             IN  SomeOf(Marker_complete(complete.p, m.r,
                                        IF complete.r.kind = "NAME"
                                        THEN "SINGLE_PATTERN" ELSE "EXPR_PATTERN"))

(* pattern: the arm of an identifier *)
pattern_identifier(p) ==
    LET m == Parser_start(p)
        named == IF m.p.state.should_record_names THEN record_name(m.p) ELSE m.p
        noted == [named EXCEPT !.decls = Append(@, Decl(m.p, named))]
    IN  SomeOf(Marker_complete(binding_identifier(noted).p, m.r, "SINGLE_PATTERN"))

(* pattern: the arm of any other token *)
pattern_recover(p) ==
    LET err == ParseError("expected_pattern", Parser_cur_range(p), None)
        ts == {"ident", "yield", "await", "["}
              \cup (IF p.state.allow_object_expr THEN {"{"} ELSE {})
    IN  Ret(SingleTokenParseRecovery_recover(p, ts, "JS_UNKNOWN_PATTERN", err), None)

RECURSIVE pattern(_, _, _)
RECURSIVE binding_element(_, _, _)
RECURSIVE array_binding_pattern(_, _, _)
RECURSIVE array_binding_pattern_loop(_, _, _)
RECURSIVE array_binding_pattern_again(_, _, _, _)
RECURSIVE object_binding_pattern(_, _)
RECURSIVE object_binding_pattern_loop(_, _, _)
RECURSIVE object_binding_pattern_body(_, _, _, _)
RECURSIVE object_binding_pattern_again(_, _, _, _)
RECURSIVE object_binding_prop(_, _)

pattern(p, parameters, assignment) ==
    IF Parser_cur(p) = "this" /\ parameters THEN pattern_this(p)
    ELSE IF Parser_cur(p) = "["
    THEN SomeOf(array_binding_pattern(p, parameters, assignment))
    ELSE IF Parser_cur(p) = "{" /\ p.state.allow_object_expr
    THEN SomeOf(object_binding_pattern(p, parameters))
    ELSE IF assignment THEN pattern_assignment(p)
    ELSE IF Parser_cur(p) \in {"ident", "yield", "await"} THEN pattern_identifier(p)
    ELSE pattern_recover(p)

(* binding_element after its pattern, with the marker of the assignment
   pattern left open *)
binding_element_initializer_unfinished(left) ==
    IF Parser_at(left.p, "=")
    THEN LET m == IF left.r # None
                  THEN CompletedMarker_precede(left.p, left.r[1])
                  ELSE Parser_start(left.p)
         IN  Ret(assign_expr(Parser_bump_any(m.p)).p, left.r)
    ELSE left

(* binding_element after its pattern: the initializer, if there is one *)
binding_element_initializer(left) ==
    IF Parser_at(left.p, "=")
    THEN LET m == IF left.r # None
                  THEN CompletedMarker_precede(left.p, left.r[1])
                  ELSE Parser_start(left.p)
         IN  SomeOf(Marker_complete(assign_expr(Parser_bump_any(m.p)).p, m.r,
                                    "ASSIGN_PATTERN"))
    ELSE left

binding_element(p, parameters, assignment) ==
    binding_element_initializer(pattern(p, parameters, assignment))

(* The rest element of both patterns: the marker is started and the dots
   consumed, and after the pattern the marker completed *)
rest_pattern_open(p) ==
    LET m == Parser_start(p) IN [p |-> Parser_bump_any(m.p), m |-> m.r]

rest_pattern_close(m, pat) == Marker_complete(pat.p, m, "REST_PATTERN").p

(* array_binding_pattern: an element was parsed *)
array_binding_pattern_element(elem) ==
    LET q == IF elem.r = None
             THEN SingleTokenParseRecovery_recover(
                      elem.p, {"await", "ident", "yield", ":", "=", "]"},
                      "JS_UNKNOWN_PATTERN",
                      ParseError("unexpected", Parser_cur_range(elem.p), None))
             ELSE elem.p
    IN  IF ~Parser_at(q, "]") THEN Parser_expect_required(q, ",") ELSE q

(* An iteration that ends where it began would repeat for ever: the parser
   is then stuck and the call does not return *)
array_binding_pattern_again(p, q, parameters, assignment) ==
    IF q.pos = p.pos THEN [q EXCEPT !.stuck = TRUE]
    ELSE array_binding_pattern_loop(q, parameters, assignment)

(* The while loop of array_binding_pattern, from its condition on *)
array_binding_pattern_loop(p, parameters, assignment) ==
    IF p.stuck \/ Parser_at(p, "EOF") \/ Parser_at(p, "]") THEN p
    ELSE IF Parser_at(p, ",")
    THEN array_binding_pattern_loop(Parser_eat(p, ",").p, parameters, assignment)
    ELSE IF Parser_at(p, "...")
    THEN rest_pattern_close(rest_pattern_open(p).m,
                            pattern(rest_pattern_open(p).p, parameters, assignment))
    ELSE array_binding_pattern_again(
             p,
             array_binding_pattern_element(binding_element(p, parameters, assignment)),
             parameters, assignment)

(* The two markers a bracketed pattern starts before its loop, and their
   completion after it *)
list_pattern_open(p, bracket) ==
    LET m == Parser_start(p)
        list == Parser_start(Parser_expect_required(m.p, bracket))
    IN  [p |-> list.p, m |-> m.r, list |-> list.r]

list_pattern_close(open, after, bracket, k) ==
    LET list == Marker_complete(after, open.list, "LIST")
    IN  Marker_complete(Parser_expect_required(list.p, bracket), open.m, k)

array_binding_pattern(p, parameters, assignment) ==
    list_pattern_close(
        list_pattern_open(p, "["),
        array_binding_pattern_loop(list_pattern_open(p, "[").p, parameters, assignment),
        "]", "ARRAY_PATTERN")

object_binding_pattern_again(p, prop, parameters, first) ==
    IF ~first /\ prop.p.pos = p.pos THEN [prop.p EXCEPT !.stuck = TRUE]
    ELSE object_binding_pattern_loop(prop.p, parameters, FALSE)

(* The body of the while loop of object_binding_pattern, q being the parser
   after the comma it expects between properties *)
object_binding_pattern_body(p, q, parameters, first) ==
    IF ~first /\ Parser_at(q, "}") THEN q
    ELSE IF Parser_at(q, "...")
    THEN rest_pattern_close(rest_pattern_open(q).m,
                            pattern(rest_pattern_open(q).p, parameters, FALSE))
    ELSE object_binding_pattern_again(p, object_binding_prop(q, parameters),
                                      parameters, first)

(* The while loop of object_binding_pattern, from its condition on *)
object_binding_pattern_loop(p, parameters, first) ==
    IF p.stuck \/ Parser_at(p, "EOF") \/ Parser_at(p, "}") THEN p
    ELSE object_binding_pattern_body(
             p, IF first THEN p ELSE Parser_expect_required(p, ","), parameters, first)

object_binding_pattern(p, parameters) ==
    list_pattern_close(
        list_pattern_open(p, "{"),
        object_binding_pattern_loop(list_pattern_open(p, "{").p, parameters, TRUE),
        "}", "OBJECT_PATTERN")

(* object_binding_prop up to the colon: its marker, the name and whether a
   colon was eaten *)
object_binding_prop_name(p) ==
    LET m == Parser_start(p)
        name == IF (is_keyword(Parser_cur(m.p)) \/ Parser_cur(m.p) = "ident")
                   /\ Parser_nth(m.p, 1) = ":"
                THEN identifier_name(m.p)
                ELSE object_prop_name(m.p, TRUE)
        colon == Parser_eat(name.p, ":")
    IN  [p |-> colon.p, m |-> m.r, name |-> name.r, colon |-> colon.r]

(* object_binding_prop: the value of a key has been parsed *)
object_binding_prop_key_value(m, elem) ==
    SomeOf(Marker_complete(elem.p, m, "KEY_VALUE_PATTERN"))

(* object_binding_prop without a colon *)
object_binding_prop_shorthand(p, m, name) ==
    IF name = None
    THEN Ret(SingleTokenParseRecovery_recover(
                 Marker_abandon(p, m),
                 {"await", "ident", "yield", ":", "=", "}"}, "JS_UNKNOWN_BINDING",
                 ParseError("unexpected", Parser_cur_range(p), None)),
             None)
    ELSE IF name[1].kind # "NAME"
    THEN Ret(Parser_error(Marker_abandon(p, m),
                          ParseError("expected_identifier_for_pattern",
                                     Parser_cur_range(p), None)),
             None)
    ELSE LET pre == CompletedMarker_precede(p, name[1])
             sp_marker == Marker_complete(pre.p, pre.r, "SINGLE_PATTERN")
             eq == Parser_eat(sp_marker.p, "=")
         IN  IF eq.r
             THEN SomeOf(Marker_complete(assign_expr(eq.p).p, m, "ASSIGN_PATTERN"))
             ELSE Ret(Marker_abandon(sp_marker.p, m), Some(sp_marker.r))

object_binding_prop(p, parameters) ==
    IF object_binding_prop_name(p).colon
    THEN object_binding_prop_key_value(
             object_binding_prop_name(p).m,
             binding_element(object_binding_prop_name(p).p, parameters, FALSE))
    ELSE object_binding_prop_shorthand(object_binding_prop_name(p).p,
                                       object_binding_prop_name(p).m,
                                       object_binding_prop_name(p).name)

----------------------------------------------------------------------------
(* TreeBuilder *)

NoCall ==
    [op |-> "none", handle |-> H(0, <<>>), mutable |-> FALSE, before |-> <<>>,
     from |-> 0, to |-> 0, ins |-> <<>>, panic |-> FALSE, result |-> H(0, <<>>),
     removed |-> <<>>, inserted |-> <<>>, step |-> 0]

Init ==
    /\ pc = "building"
    /\ parents = <<>>
    /\ bchildren = <<>>
    /\ emitted = <<>>
    /\ frames = <<>>
    /\ sealed = <<>>
    /\ trees = <<>>
    /\ last = NoCall
    /\ snaps = <<>>
    /\ nops = 0
    /\ log = <<>>
    /\ held = SyntaxList_default
    /\ parser = Parser_idle

NoEdit == UNCHANGED <<trees, last, snaps, nops, held, parser>>

(* A call of the builder: the position it is about and the element it adds *)
Logged(op, path, elem) == Append(log, [op |-> op, path |-> path, elem |-> elem])

(* One more slot event in the innermost open frame *)
Bump(fs) ==
    IF fs = <<>> THEN fs
    ELSE [fs EXCEPT ![Len(fs)].count = fs[Len(fs)].count + 1]

(* The path the next element of the current frame will have *)
NextPath ==
    IF frames = <<>> THEN <<>>
    ELSE frames[Len(frames)].path \o <<frames[Len(frames)].count + 1>>

start_node(k) ==
    /\ pc = "building"
    /\ Len(parents) + Len(sealed) + Len(emitted) < MaxElems
    /\ parents = <<>> => bchildren = <<>>
    /\ parents' = Append(parents, [kind |-> k, first_child |-> Len(bchildren)])
    /\ frames' = Append(frames, [path |-> NextPath, count |-> 0])
    /\ log' = Logged("start_node", NextPath, GreenNode(k, <<>>))
    /\ UNCHANGED <<pc, bchildren, emitted, sealed>>
    /\ NoEdit

(* token(kind, text) and token_with_trivia(kind, text, leading, trailing) *)
token(tok) ==
    /\ pc = "building"
    /\ Len(parents) + Len(sealed) + Len(emitted) < MaxElems
    /\ parents # <<>>
    /\ bchildren' = Append(bchildren, tok)
    /\ emitted' = Append(emitted, tok)
    /\ frames' = Bump(frames)
    /\ log' = Logged("token", NextPath, tok)
    /\ UNCHANGED <<pc, parents, sealed>>
    /\ NoEdit

missing ==
    /\ pc = "building"
    /\ Len(parents) + Len(sealed) + Len(emitted) < MaxElems
    /\ parents # <<>>
    /\ bchildren' = Append(bchildren, EmptySlot)
    /\ emitted' = Append(emitted, EmptySlot)
    /\ frames' = Bump(frames)
    /\ log' = Logged("missing", NextPath, EmptySlot)
    /\ UNCHANGED <<pc, parents, sealed>>
    /\ NoEdit

finish_node ==
    /\ pc = "building"
    /\ IF parents = <<>>
       THEN /\ pc' = "panic"
            /\ log' = Logged("finish_node", <<>>, EmptySlot)
            /\ UNCHANGED <<parents, bchildren, frames, sealed>>
       ELSE LET top == parents[Len(parents)]
                node == GreenNode(top.kind,
                                  SubSeq(bchildren, top.first_child + 1, Len(bchildren)))
            IN  /\ parents' = Front(parents)
                /\ bchildren' = Append(SubSeq(bchildren, 1, top.first_child), node)
                /\ sealed' = Append(sealed, frames[Len(frames)])
                /\ frames' = Bump(Front(frames))
                /\ log' = Logged("finish_node", frames[Len(frames)].path, node)
                /\ pc' = pc
    /\ UNCHANGED emitted
    /\ NoEdit

(* finish handing out the last sealed node without looking at the frames
   still open *)
finish_unchecked ==
    /\ pc = "building"
    /\ IF Len(bchildren) >= 1 /\ bchildren[Len(bchildren)].tag = "Node"
       THEN /\ pc' = "built"
            /\ trees' = <<Tree(bchildren[Len(bchildren)], FALSE)>>
            /\ snaps' = <<[handle |-> H(1, <<>>), green |-> bchildren[Len(bchildren)],
                            source |-> H(1, <<>>)]>>
       ELSE /\ pc' = "panic"
            /\ UNCHANGED <<trees, snaps>>
    /\ log' = Logged("finish", <<>>, EmptySlot)
    /\ UNCHANGED <<parents, bchildren, emitted, frames, sealed, last, nops, held,
                   parser>>

finish ==
    /\ pc = "building"
    /\ IF parents = <<>> /\ Len(bchildren) = 1 /\ bchildren[1].tag = "Node"
       THEN /\ pc' = "built"
            /\ trees' = <<Tree(bchildren[1], FALSE)>>
            /\ snaps' = <<[handle |-> H(1, <<>>), green |-> bchildren[1],
                            source |-> H(1, <<>>)]>>
       ELSE /\ pc' = "panic"
            /\ UNCHANGED <<trees, snaps>>
    /\ log' = Logged("finish", <<>>, EmptySlot)
    /\ UNCHANGED <<parents, bchildren, emitted, frames, sealed, last, nops, held,
                   parser>>

----------------------------------------------------------------------------
(* Calls of the mutation layer on the built tree and on the trees made from it *)

(* Paths of the nodes and tokens of g, g itself included *)
RECURSIVE ElementPaths(_)
ElementPaths(g) ==
    {<<>>} \cup UNION {{<<i>> \o p : p \in ElementPaths(g.slots[i])} :
                        i \in {j \in 1..Len(g.slots) : g.slots[j].tag # "Empty"}}

LiveHandles ==
    UNION {{H(t, p) : p \in ElementPaths(trees[t].green)} :
            t \in {u \in 1..Len(trees) : trees[u].state = "root"}}

NodeHandles == {h \in LiveHandles : cursor_green(Deref(trees, h)).tag = "Node"}

Call(op, h, from, to, ins, r) ==
    [op |-> op, handle |-> h, mutable |-> trees[h.tree].mutable, before |-> trees,
     from |-> from, to |-> to, ins |-> ins, panic |-> r.panic, result |-> r.handle,
     removed |-> r.removed, inserted |-> r.inserted, step |-> nops + 1]

Apply(op, h, from, to, ins, r) ==
    /\ last' = Call(op, h, from, to, ins, r)
    /\ nops' = nops + 1
    /\ IF r.panic
       THEN pc' = "panic" /\ trees' = trees
       ELSE pc' = pc /\ trees' = r.trees
    /\ UNCHANGED <<parents, bchildren, emitted, frames, sealed, log, held, parser>>

Snap(h, r) ==
    Append(snaps, [handle |-> r.handle, green |-> cursor_green(Deref(trees, h)),
                   source |-> h])

CloneSubtree(h) ==
    /\ pc = "built" /\ nops < MaxOps
    /\ LET r == clone_subtree(trees, h)
       IN  Apply("clone_subtree", h, 0, 0, <<>>, r) /\ snaps' = Snap(h, r)

CloneForUpdate(h) ==
    /\ pc = "built" /\ nops < MaxOps
    /\ ~trees[h.tree].mutable
    /\ h.path = <<>>
    /\ Apply("clone_for_update", h, 0, 0, <<>>, clone_for_update(trees, h))
    /\ UNCHANGED snaps

Detach(h) ==
    /\ pc = "built" /\ nops < MaxOps
    /\ trees[h.tree].mutable => h.path # <<>>
    /\ Apply("detach", h, 0, 0, <<>>, SyntaxElement_detach(trees, h))
    /\ UNCHANGED snaps

(* The elements a splice may insert: mutable roots other than the target *)
Insertable(h) ==
    {H(t, <<>>) : t \in {u \in 1..Len(trees) :
        trees[u].state = "root" /\ trees[u].mutable /\ u # h.tree}}

InsertSeqs(h) ==
    {<<>>} \cup {<<x>> : x \in Insertable(h)}
           \cup {p \in Insertable(h) \X Insertable(h) : p[1] # p[2]}

SpliceChildren(h, from, to, ins) ==
    /\ pc = "built" /\ nops < MaxOps
    /\ Len(ins) <= MaxIns
    /\ trees[h.tree].mutable => (from < to \/ ins # <<>>)
    /\ Apply("splice_children", h, from, to, ins, splice_children(trees, h, from, to, ins))
    /\ UNCHANGED snaps

(* The client takes the list view of a node of the built tree *)
IntoList(h) ==
    /\ pc = "built"
    /\ into_list(Deref(trees, h)) # None
    /\ held' = into_list(Deref(trees, h))[1]
    /\ UNCHANGED <<pc, parents, bchildren, emitted, frames, sealed, trees, last,
                   snaps, nops, log, parser>>

Next ==
    \/ \E h \in NodeHandles : IntoList(h)
    \/ \E k \in NodeKinds : start_node(k)
    \/ \E tok \in TokenInputs : token(tok)
    \/ missing
    \/ finish_node
    \/ finish

Spec == Init /\ [][Next]_vars

(* Calls of the mutation layer, starting from a tree the builder has just
   finished.  The trees are those a parser run produces for a statement list
   (a list root) or a statement (a root that is no list): tokens with and
   without trivia, a child node past offset 0, a nested list, missing()
   slots. *)
EditChildren ==
    { <<TokA, TokB, GreenNode(1, <<TokB, TokA>>)>>,
      <<GreenNode(list_kind, <<TokA, TokB>>), EmptySlot, TokB>>,
      <<TokB, EmptySlot, GreenNode(1, <<TokA>>), TokA>> }

EditSources == {GreenNode(k, slots) : k \in NodeKinds, slots \in EditChildren}

(* The token and missing events, and the finish_node records, of the build
   of g *)
RECURSIVE LeavesOf(_)
LeavesOf(g) ==
    IF g.tag = "Node"
    THEN Flatten([i \in 1..Len(g.slots) |-> LeavesOf(g.slots[i])])
    ELSE <<g>>

RECURSIVE LogOf(_, _)
LogOf(g, path) ==
    IF g.tag = "Node"
    THEN <<[op |-> "start_node", path |-> path, elem |-> GreenNode(g.kind, <<>>)]>>
         \o Flatten([i \in 1..Len(g.slots) |-> LogOf(g.slots[i], path \o <<i>>)])
         \o <<[op |-> "finish_node", path |-> path, elem |-> g]>>
    ELSE <<[op |-> (IF g.tag = "Token" THEN "token" ELSE "missing"),
            path |-> path, elem |-> g]>>

RECURSIVE SealedOf(_, _)
SealedOf(g, path) ==
    IF g.tag = "Node"
    THEN Flatten([i \in 1..Len(g.slots) |-> SealedOf(g.slots[i], path \o <<i>>)])
         \o <<[path |-> path, count |-> Len(g.slots)]>>
    ELSE <<>>

EditInit ==
    \E src \in EditSources :
        /\ pc = "built"
        /\ parents = <<>>
        /\ bchildren = <<src>>
        /\ emitted = LeavesOf(src)
        /\ frames = <<>>
        /\ sealed = SealedOf(src, <<>>)
        /\ trees = <<Tree(src, FALSE)>>
        /\ last = NoCall
        /\ snaps = <<[handle |-> H(1, <<>>), green |-> src, source |-> H(1, <<>>)]>>
        /\ nops = 0
        /\ log = LogOf(src, <<>>)
                 \o <<[op |-> "finish", path |-> <<>>, elem |-> EmptySlot]>>
        /\ held = SyntaxList_default
        /\ parser = Parser_idle

EditNext ==
    \/ /\ pc = "built" /\ nops < MaxOps
       /\ \E h \in NodeHandles : CloneSubtree(h)
    \/ /\ pc = "built" /\ nops < MaxOps
       /\ \E h \in NodeHandles : CloneForUpdate(h)
    \/ /\ pc = "built" /\ nops < MaxOps
       /\ \E h \in LiveHandles : Detach(h)
    \/ /\ pc = "built" /\ nops < MaxOps
       /\ \E h \in NodeHandles :
              LET n == IF trees[h.tree].mutable
                       THEN Len(ChildSlots(cursor_green(Deref(trees, h)))) ELSE 0
              IN  \E from \in 0..n : \E to \in from..n :
                      \E ins \in IF trees[h.tree].mutable THEN InsertSeqs(h) ELSE {<<>>} :
                          SpliceChildren(h, from, to, ins)

EditSpec == EditInit /\ [][EditNext]_vars

----------------------------------------------------------------------------
(* The pattern parser at work: an input of at most MaxToks tokens and a
   parser state are given, and the functions of pat.rs are called one after
   another on what is left of the input.  Each call starts with the events,
   markers and errors of the parser cleared, so that the state after the call
   shows what this call emitted; the names recorded are kept. *)

TokenAlphabet ==
    {Tok("ident", "a", 1), Tok("ident", "let", 3), Tok("this", "this", 4),
     Tok("number", "5", 1), Tok("[", "[", 1), Tok("]", "]", 1),
     Tok("{", "{", 1), Tok("}", "}", 1), Tok(",", ",", 1),
     Tok("...", "...", 3), Tok("=", "=", 1), Tok(":", ":", 1)}

(* The patterns of the test cases pat.rs carries in its comments, an object
   pattern with a trailing comma, and a list of declared names with a
   repetition *)
T_ident(src, len) == Tok("ident", src, len)
T_punct(k) == Tok(k, k, 1)

SampleInputs ==
    {<<T_punct("["), Tok("default", "default", 7), T_punct(":"), T_punct(","),
       T_ident("hey", 3), T_punct(","), T_punct("]")>>,
     <<T_punct("{"), Tok("number", "5", 1), T_punct("}"), T_punct("}")>>,
     <<T_punct("{"), T_ident("eval", 4), T_punct("}")>>,
     <<T_punct("{"), Tok("number", "5", 1), T_punct(","), Tok("number", "6", 1),
       T_punct("}")>>,
     <<T_punct("{"), Tok("default", "default", 7), T_punct(":"), T_punct(","),
       T_ident("bar", 3), T_punct("}")>>,
     <<T_punct("{"), Tok("default", "default", 7), T_punct(":"), T_ident("foo", 3),
       T_punct(","), T_ident("bar", 3), T_punct("}")>>,
     <<T_punct("{"), T_ident("foo", 3), T_punct("="), T_ident("bar", 3),
       T_punct(","), T_ident("baz", 3), T_punct("}")>>,
     <<T_punct("{"), T_ident("foo", 3), T_punct(","), T_punct("}")>>,
     <<T_ident("foo", 3), T_ident("bar", 3), T_ident("let", 3), T_ident("foo", 3)>>}

Inputs == SampleInputs \cup UNION {[1..n -> TokenAlphabet] : n \in 1..MaxToks}

ParserStates ==
    {ParserState(TRUE, TRUE, FALSE, FALSE, FALSE),
     ParserState(FALSE, TRUE, FALSE, FALSE, FALSE),
     ParserState(TRUE, FALSE, TRUE, TRUE, TRUE)}

PatInit ==
    /\ pc = "building"
    /\ parents = <<>>
    /\ bchildren = <<>>
    /\ emitted = <<>>
    /\ frames = <<>>
    /\ sealed = <<>>
    /\ trees = <<>>
    /\ last = NoCall
    /\ snaps = <<>>
    /\ nops = 0
    /\ log = <<>>
    /\ held = SyntaxList_default
    /\ \E toks \in Inputs : \E state \in ParserStates :
           parser = Parser_new(toks, state)

NoBuild ==
    UNCHANGED <<pc, parents, bchildren, emitted, frames, sealed, trees, last,
                snaps, nops, log, held>>

Cleared(p) == [p EXCEPT !.events = <<>>, !.markers = <<>>, !.errors = <<>>]

Called(fn, res) ==
    /\ parser' = [res.p EXCEPT !.call =
                     [fn |-> fn, pos |-> parser.pos,
                      name_map |-> parser.state.name_map,
                      ret |-> res.r, returned |-> ~res.p.stuck]]
    /\ NoBuild

(* a call is made while the parser is running and has a token to look at *)
CanCall == ~parser.stuck /\ parser.pos <= Len(parser.toks)

Pattern(parameters, assignment) ==
    /\ CanCall
    /\ Called("pattern",
              pattern(Cleared(parser), parameters, assignment))

BindingElement(parameters, assignment) ==
    /\ CanCall
    /\ Called("binding_element",
              binding_element(Cleared(parser), parameters, assignment))

ArrayBindingPattern(parameters, assignment) ==
    /\ CanCall
    /\ Called("array_binding_pattern",
              array_binding_pattern(Cleared(parser), parameters, assignment))

ObjectBindingPattern(parameters) ==
    /\ CanCall
    /\ Called("object_binding_pattern",
              object_binding_pattern(Cleared(parser), parameters))

BindingIdentifier ==
    /\ CanCall
    /\ Called("binding_identifier", binding_identifier(Cleared(parser)))

OptBindingIdentifier ==
    /\ CanCall
    /\ Called("opt_binding_identifier",
              opt_binding_identifier(Cleared(parser)))

PatNext ==
    \/ \E parameters \in BOOLEAN : \E assignment \in BOOLEAN :
           Pattern(parameters, assignment)
    \/ \E parameters \in BOOLEAN : \E assignment \in BOOLEAN :
           BindingElement(parameters, assignment)
    \/ \E parameters \in BOOLEAN : \E assignment \in BOOLEAN :
           ArrayBindingPattern(parameters, assignment)
    \/ \E parameters \in BOOLEAN : ObjectBindingPattern(parameters)
    \/ BindingIdentifier
    \/ OptBindingIdentifier

PatSpec == PatInit /\ [][PatNext]_vars

----------------------------------------------------------------------------
(* Properties of the built tree *)

Root == Red(trees[1].green, <<>>)

(* Paths of the nodes of g, g itself included *)
NodePaths(g) == {p \in ElementPaths(g) : green_at(g, p).tag = "Node"}

BuiltNodes == {Red(trees[1].green, p) : p \in NodePaths(trees[1].green)}

BuiltTokens ==
    {cursor_descendants_tokens(Root)[k] : k \in 1..Len(cursor_descendants_tokens(Root))}

TokenEvents == SelectSeq(emitted, LAMBDA e : e.tag = "Token")

LeadLen(t) == SumLen(cursor_green(t).lead)
TrailLen(t) == SumLen(cursor_green(t).trail)

(* C1: the text of the root of a built tree is the concatenation, in emission
   order, of the full text of every token event; missing() events add
   nothing. *)
C1_RoundTrip ==
    pc = "built" =>
        text(Root) = Flatten([i \in 1..Len(TokenEvents) |-> TokenEvents[i].txt])

(* a built tree with a missing slot, a token with trivia and a token inside a
   child node *)
C1_Witness ==
    /\ pc = "built"
    /\ \E i \in 1..Len(emitted) : emitted[i].tag = "Empty"
    /\ \E i \in 1..Len(emitted) : emitted[i] = TokB
    /\ \E p \in ElementPaths(trees[1].green) :
           Len(p) = 2 /\ green_at(trees[1].green, p).tag = "Token"
    /\ Len(text(Root)) > 1

(* The text of the tokens of n with the leading trivia of the first and the
   trailing trivia of the last cut off *)
TrimmedOfTokens(n) ==
    LET ts == cursor_descendants_tokens(n)
    IN  Flatten([j \in 1..Len(ts) |->
            LET g == cursor_green(ts[j])
                lo == IF j = 1 THEN SumLen(g.lead) ELSE 0
                hi == IF j = Len(ts) THEN g.len - SumLen(g.trail) ELSE g.len
            IN  SubSeq(g.txt, lo + 1, hi)])

(* C2: for every node with a token, text_trimmed is text without the leading
   trivia of the first token and the trailing trivia of the last token, and
   every other trivia is kept. *)
C2_TrimLaw ==
    pc = "built" =>
        \A n \in BuiltNodes :
            first_token(n) # None =>
                /\ text_trimmed(n) = TrimmedOfTokens(n)
                /\ text(n) = SyntaxTrivia_text(first_leading_trivia(n)[1])
                             \o text_trimmed(n)
                             \o SyntaxTrivia_text(last_trailing_trivia(n)[1])

(* a node with three tokens, the first and the last with trivia on both sides *)
C2_Witness ==
    /\ pc = "built"
    /\ \E n \in BuiltNodes :
           LET ts == cursor_descendants_tokens(n)
           IN  /\ Len(ts) = 3
               /\ cursor_green(ts[1]) = TokB
               /\ cursor_green(ts[3]) = TokB
               /\ Len(text_trimmed(n)) = Len(text(n)) - 3

(* C3: for every node the length of text_range is the length of text, and
   text_trimmed_range lies inside text_range, starting after the leading
   trivia of the first token and ending before the trailing trivia of the
   last token. *)
C3_RangeLaw ==
    pc = "built" =>
        \A n \in BuiltNodes :
            LET lead == IF first_token(n) = None THEN 0 ELSE LeadLen(first_token(n)[1])
                trail == IF last_token(n) = None THEN 0 ELSE TrailLen(last_token(n)[1])
            IN  /\ TextRange_len(text_range(n)) = Len(text(n))
                /\ TextRange_contains_range(text_range(n), text_trimmed_range(n))
                /\ text_trimmed_range(n).start = text_range(n).start + lead
                /\ text_trimmed_range(n).end = text_range(n).end - trail

(* a child node that starts past offset 0 and whose only token has trivia on
   both sides *)
C3_Witness ==
    /\ pc = "built"
    /\ \E n \in BuiltNodes :
           /\ text_range(n).start > 0
           /\ first_token(n) # None
           /\ LeadLen(first_token(n)[1]) > 0
           /\ TrailLen(last_token(n)[1]) > 0
           /\ text_trimmed_range(n).start > text_range(n).start
           /\ text_trimmed_range(n).end < text_range(n).end

(* The nearest slot of the parent of n after (step 1) or before (step -1) n
   that holds a node *)
NearestNode(n, step) ==
    LET p == Front(n.path)
        slots == green_at(n.root, p).slots
        i == Last(n.path)
        cand == {j \in 1..Len(slots) :
                    slots[j].tag = "Node" /\ (IF step = 1 THEN j > i ELSE j < i)}
    IN  IF cand = {} THEN None
        ELSE Some(Red(n.root, p \o <<CHOOSE j \in cand :
                        \A k \in cand : IF step = 1 THEN j <= k ELSE j >= k>>))

NodeSlots(n) ==
    LET slots == cursor_green(n).slots
        idx == SelectSeq([i \in 1..Len(slots) |-> i], LAMBDA i : slots[i].tag = "Node")
    IN  [k \in 1..Len(idx) |-> Red(n.root, n.path \o <<idx[k]>>)]

(* C4: next_sibling and prev_sibling of a child node are the child nodes in
   the nearest later and earlier node slots, None when there is none, never
   an element for an Empty slot; children() yields the node slots in slot
   order with the Empty slots skipped. *)
C4_MissingSkip ==
    pc = "built" =>
        \A n \in BuiltNodes :
            /\ children(n) = NodeSlots(n)
            /\ n.path # <<>> =>
                /\ next_sibling(n) = NearestNode(n, 1)
                /\ prev_sibling(n) = NearestNode(n, -1)
                /\ \A s \in {next_sibling(n), prev_sibling(n)} :
                       s # None => cursor_green(s[1]).tag = "Node"

(* two child nodes with a missing() slot between them *)
C4_Witness ==
    /\ pc = "built"
    /\ \E n \in BuiltNodes :
           /\ n.path = <<1>>
           /\ Len(cursor_green(Root).slots) = 3
           /\ cursor_green(Root).slots[2].tag = "Empty"
           /\ next_sibling(n) = Some(Red(n.root, <<3>>))
           /\ prev_sibling(next_sibling(n)[1]) = Some(n)
           /\ Len(children(Root)) = 2

(* C5: len() of a SyntaxList is the number of slot events (token, finished
   child node, missing) emitted directly inside the frame of its node. *)
C5_ListLen ==
    pc = "built" =>
        \A i \in 1..Len(sealed) :
            LET l == into_list(Red(trees[1].green, sealed[i].path))
            IN  l # None => SyntaxList_len(l[1]) = sealed[i].count

(* a list node holding a token, a child node and an Empty slot *)
C5_Witness ==
    /\ pc = "built"
    /\ into_list(Root) # None
    /\ SyntaxList_len(into_list(Root)[1]) = 3
    /\ Len(cursor_green(Root).slots) = 3
    /\ {cursor_green(Root).slots[i].tag : i \in 1..3} = {"Token", "Node", "Empty"}

----------------------------------------------------------------------------
(* Properties of the mutation layer.  last describes the most recent call:
   last.before are the trees before it, trees the trees after it. *)

Edited == last.op \in {"detach", "splice_children"}

Greens(ns) == [k \in 1..Len(ns) |-> cursor_green(ns[k])]

(* The root of the edited tree before and after the last call *)
RootBefore == last.before[last.handle.tree].green
RootAfter == trees[last.handle.tree].green

(* The text of the whole edited tree that the last call is to leave: the
   former text with the characters in [s, e) replaced by new *)
Replaced(txt, s, e, new) == SubSeq(txt, 1, s) \o new \o SubSeq(txt, e + 1, Len(txt))

DetachedRange == text_range(Red(RootBefore, last.handle.path))

SplicedRange ==
    LET n == Red(RootBefore, last.handle.path)
        C == children_with_tokens(n)
        s == IF last.from < Len(C) THEN text_range(C[last.from + 1]).start
             ELSE text_range(n).end
        e == IF last.from < last.to THEN text_range(C[last.to]).end ELSE s
    IN  TextRange(s, e)

InsertedText ==
    Flatten([k \in 1..Len(last.ins) |->
                text(Red(last.before[last.ins[k].tree].green, <<>>))])

(* C6: clone_for_update yields a mutable copy; every later detach or
   splice_children leaves the tree it was cloned from and every immutable
   clone as they were, and the edit shows from the root of the mutable
   tree. *)
C6_CloneForUpdateFrame ==
    /\ (last.op = "clone_for_update" /\ ~last.panic) =>
            /\ last.result.tree \notin 1..Len(last.before)
            /\ trees[last.result.tree].mutable
            /\ trees[last.result.tree].green = last.before[last.handle.tree].green
            /\ SubSeq(trees, 1, Len(last.before)) = last.before
    /\ Edited =>
            /\ \A t \in 1..Len(last.before) :
                   ~last.before[t].mutable => trees[t] = last.before[t]
            /\ \A t \in 1..Len(trees) : ~trees[t].mutable =>
                   \E i \in 1..Len(snaps) :
                       snaps[i].handle = H(t, <<>>) /\ snaps[i].green = trees[t].green
    /\ (last.op = "detach" /\ ~last.panic) =>
            text(Red(RootAfter, <<>>)) =
                Replaced(text(Red(RootBefore, <<>>)),
                         DetachedRange.start, DetachedRange.end, <<>>)
    /\ (last.op = "splice_children" /\ ~last.panic) =>
            text(Red(RootAfter, <<>>)) =
                Replaced(text(Red(RootBefore, <<>>)),
                         SplicedRange.start, SplicedRange.end, InsertedText)

(* an element with text was detached from a mutable clone of the built tree
   while the built tree and an immutable clone of it are alive *)
C6_Witness ==
    /\ last.op = "detach" /\ ~last.panic
    /\ last.handle.tree = 3
    /\ Len(snaps) = 2
    /\ ~trees[2].mutable
    /\ text(Red(RootAfter, <<>>)) # text(Red(RootBefore, <<>>))
    /\ text(Red(trees[1].green, <<>>)) = text(Red(RootBefore, <<>>))

(* C7: after detach of a child c of a mutable parent p, c has no parent, the
   children of p are the former children without c, the former neighbours
   of c are each other's siblings, the text of p is its former text without
   the text of c, and p has one slot less when it is a list and an Empty
   slot at the place of c otherwise. *)
C7_Detach ==
    (last.op = "detach" /\ ~last.panic /\ last.handle.path # <<>>) =>
        LET h == last.handle
            pp == Front(h.path)
            i == Last(h.path)
            pb == Red(RootBefore, pp)
            pa == Red(RootAfter, pp)
            c == Red(RootBefore, h.path)
            Cb == children_with_tokens(pb)
            Ca == children_with_tokens(pa)
            k == CHOOSE j \in 1..Len(Cb) : Cb[j] = c
            shift == IF cursor_kind(pb) = list_kind THEN 1 ELSE 0
            prev == prev_sibling_or_token(c)
            next == next_sibling_or_token(c)
            prevA == Red(RootAfter, prev[1].path)
            nextA == Red(RootAfter, pp \o <<Last(next[1].path) - shift>>)
        IN  /\ last.result.tree > Len(last.before)
            /\ parent(Deref(trees, last.result)) = None
            /\ cursor_green(Deref(trees, last.result)) = cursor_green(c)
            /\ Greens(Ca) = RemoveAt(Greens(Cb), k)
            /\ prev # None =>
                   next_sibling_or_token(prevA) = (IF next = None THEN None ELSE Some(nextA))
            /\ next # None =>
                   prev_sibling_or_token(nextA) = (IF prev = None THEN None ELSE Some(prevA))
            /\ (prev # None /\ next # None) =>
                   /\ cursor_green(prevA) = cursor_green(prev[1])
                   /\ cursor_green(nextA) = cursor_green(next[1])
            /\ text(pa) = Replaced(text(pb),
                                   text_range(c).start - text_range(pb).start,
                                   text_range(c).end - text_range(pb).start, <<>>)
            /\ IF cursor_kind(pb) = list_kind
               THEN Len(cursor_green(pa).slots) = Len(cursor_green(pb).slots) - 1
               ELSE /\ Len(cursor_green(pa).slots) = Len(cursor_green(pb).slots)
                    /\ cursor_green(pa).slots[i] = EmptySlot

Neighbours(parentKind) ==
    /\ last.op = "detach" /\ ~last.panic
    /\ LET c == Red(RootBefore, last.handle.path)
       IN  /\ cursor_kind(Red(RootBefore, Front(last.handle.path))) = parentKind
           /\ prev_sibling_or_token(c) # None
           /\ next_sibling_or_token(c) # None
           /\ Len(text(c)) > 0

(* the middle child of a list was detached *)
C7_Witness == Neighbours(list_kind)

(* the middle child of a node that is no list was detached *)
C7_WitnessNoList == Neighbours(1)

(* C8: detach or splice_children on an element of an immutable tree fails:
   the call does not return and no tree is changed. *)
C8_ImmutablePanics ==
    (Edited /\ ~last.mutable) =>
        /\ last.panic
        /\ pc = "panic"
        /\ trees = last.before

(* detach was called on a child of the built tree *)
C8_Witness ==
    /\ last.op = "detach"
    /\ last.handle.tree = 1
    /\ last.handle.path # <<>>
    /\ pc = "panic"

(* C9: clone_subtree of a node yields a root at offset 0 with the kind, the
   slots and the text of the node, in a tree of its own that is immutable;
   it keeps that content whatever is done later to the tree of the node. *)
C9_CloneSubtree ==
    /\ last.op = "clone_subtree" =>
           LET r == Deref(trees, last.result)
               n == Deref(last.before, last.handle)
           IN  /\ parent(r) = None
               /\ text_range(r).start = 0
               /\ kind(r) = kind(n)
               /\ cursor_green(r).slots = cursor_green(n).slots
               /\ text(r) = text(n)
               /\ last.result.tree \notin 1..Len(last.before)
               /\ ~trees[last.result.tree].mutable
    /\ \A i \in 2..Len(snaps) :
           LET r == Deref(trees, snaps[i].handle)
           IN  /\ cursor_green(r) = snaps[i].green
               /\ text(r) = text(Red(snaps[i].green, <<>>))
               /\ parent(r) = None

(* a node past offset 0 of a mutable tree was cloned and a child of that
   node was detached afterwards *)
C9_Witness ==
    /\ last.op = "detach" /\ ~last.panic
    /\ \E i \in 2..Len(snaps) :
           /\ snaps[i].source.tree = last.handle.tree
           /\ snaps[i].source.path = Front(last.handle.path)
           /\ snaps[i].source.path # <<>>
           /\ text_range(Red(RootBefore, snaps[i].source.path)).start > 0
           /\ cursor_green(Red(RootAfter, snaps[i].source.path)) # snaps[i].green
           /\ cursor_green(Deref(trees, snaps[i].handle)) = snaps[i].green

(* C10: splice_children(from..to, ins) on a mutable node with children C
   leaves the children C[0..from) ++ ins ++ C[to..); the removed elements
   are roots, the inserted elements are children of the node. *)
C10_Splice ==
    (last.op = "splice_children" /\ ~last.panic) =>
        LET h == last.handle
            Cb == Greens(children_with_tokens(Red(RootBefore, h.path)))
            Ca == Greens(children_with_tokens(Red(RootAfter, h.path)))
            I == [k \in 1..Len(last.ins) |-> last.before[last.ins[k].tree].green]
        IN  /\ Ca = SubSeq(Cb, 1, last.from) \o I \o SubSeq(Cb, last.to + 1, Len(Cb))
            /\ Len(last.removed) = last.to - last.from
            /\ \A k \in 1..Len(last.removed) :
                   /\ parent(Deref(trees, last.removed[k])) = None
                   /\ trees[last.removed[k].tree].state = "root"
                   /\ cursor_green(Deref(trees, last.removed[k])) = Cb[last.from + k]
            /\ Len(last.inserted) = Len(last.ins)
            /\ \A k \in 1..Len(last.inserted) :
                   /\ parent(Deref(trees, last.inserted[k])) = Some(Red(RootAfter, h.path))
                   /\ cursor_green(Deref(trees, last.inserted[k])) = I[k]
                   /\ trees[last.ins[k].tree].state = "attached"

(* a child was replaced by another element, with a child kept before it *)
C10_Witness ==
    /\ last.op = "splice_children" /\ ~last.panic
    /\ last.from > 0
    /\ last.from < last.to
    /\ Len(last.ins) = 1
    /\ last.before[last.ins[1].tree].green
           # children_with_tokens(Red(RootBefore, last.handle.path))[last.to].root

(* two different elements were inserted by one call *)
C10_WitnessTwo ==
    /\ last.op = "splice_children" /\ ~last.panic
    /\ Len(last.ins) = 2
    /\ last.before[last.ins[1].tree].green # last.before[last.ins[2].tree].green

(* C11: element_in_slot(i), for i below the slot count, is the node or token
   stored in slot i itself, and None when slot i is Empty; it is never the
   element of another slot. *)
C11_ElementInSlot ==
    pc = "built" =>
        \A n \in BuiltNodes :
            \A i \in 0..(Len(cursor_green(n).slots) - 1) :
                LET e == element_in_slot(n, i)
                    g == cursor_green(n).slots[i + 1]
                IN  IF g.tag = "Empty" THEN e = None
                    ELSE /\ e # None
                         /\ cursor_green(e[1]) = g
                         /\ parent(e[1]) = Some(n)
                         /\ cursor_index(e[1]) = i

(* slot 1 is Empty between two elements: slot access gives None where the
   sibling walk from slot 0 reaches slot 2 *)
C11_Witness ==
    /\ pc = "built"
    /\ Len(cursor_green(Root).slots) = 3
    /\ cursor_green(Root).slots[2].tag = "Empty"
    /\ element_in_slot(Root, 1) = None
    /\ element_in_slot(Root, 0) # None
    /\ element_in_slot(Root, 2) # None
    /\ next_sibling_or_token(element_in_slot(Root, 0)[1]) = element_in_slot(Root, 2)

(* C12: into_list() of a node is Some(list) exactly when the node's kind is
   the list kind, None for every other kind, and the list it returns wraps
   the node: the assertion of SyntaxList::new does not fail on this path. *)
C12_IntoList ==
    pc = "built" =>
        \A n \in BuiltNodes :
            /\ (into_list(n) # None) <=> (kind(n) = list_kind)
            /\ into_list(n) # None => into_list(n)[1] = [list |-> Some(n)]

(* a list with a child node that is no list *)
C12_Witness ==
    /\ pc = "built"
    /\ into_list(Root) # None
    /\ \E n \in BuiltNodes :
           /\ parent(n) = Some(Root)
           /\ kind(n) # list_kind
           /\ into_list(n) = None

(* C13: a SyntaxList without a node has len() 0, is_empty() true, first()
   and last() None, and iter() yields nothing. *)
C13_EmptyList ==
    held.list = None =>
        /\ SyntaxList_len(held) = 0
        /\ SyntaxList_is_empty(held)
        /\ SyntaxList_first(held) = None
        /\ SyntaxList_last(held) = None
        /\ SyntaxList_iter(held) = <<>>

(* the tree is built, its root is no list, and the client still holds the
   default list *)
C13_Witness ==
    /\ pc = "built"
    /\ into_list(Root) = None
    /\ held = SyntaxList_default
    /\ SyntaxList_is_empty(held)
    /\ SyntaxList_len(held) = 0

(* The number of Empty slots of node n, by slot access *)
EmptySlots(n) ==
    Cardinality({i \in 0..(Len(cursor_green(n).slots) - 1) : element_in_slot(n, i) = None})

(* C14 as stated: for a list backed by a node, is_empty() holds exactly when
   iter() yields nothing, first() and last() are the first and last element
   of iter(), and len() is the number of elements of iter(). *)
C14_Original ==
    held.list # None =>
        LET it == SyntaxList_iter(held)
        IN  /\ SyntaxList_is_empty(held) <=> (it = <<>>)
            /\ SyntaxList_first(held) = (IF it = <<>> THEN None ELSE Some(it[1]))
            /\ SyntaxList_last(held) = (IF it = <<>> THEN None ELSE Some(it[Len(it)]))
            /\ SyntaxList_len(held) = Len(it)

(* C14 amended: first() and last() are the first and last element of iter();
   len() is the number of slots of the node, that is the number of elements
   of iter() plus the number of Empty slots; is_empty() holds exactly when
   the node has no slot at all. *)
C14_ListForwarding ==
    held.list # None =>
        LET it == SyntaxList_iter(held)
            n == held.list[1]
        IN  /\ SyntaxList_first(held) = (IF it = <<>> THEN None ELSE Some(it[1]))
            /\ SyntaxList_last(held) = (IF it = <<>> THEN None ELSE Some(it[Len(it)]))
            /\ SyntaxList_len(held) = Len(it) + EmptySlots(n)
            /\ SyntaxList_is_empty(held) <=> (it = <<>> /\ EmptySlots(n) = 0)
            /\ \A k \in 1..Len(it) : parent(it[k]) = Some(n)
            /\ \A k \in 1..(Len(it) - 1) : cursor_index(it[k]) < cursor_index(it[k + 1])

(* a list whose slot 0 is Empty, followed by two elements *)
C14_Witness ==
    /\ held.list # None
    /\ SyntaxList_len(held) = 3
    /\ Len(SyntaxList_iter(held)) = 2
    /\ element_in_slot(held.list[1], 0) = None
    /\ SyntaxList_first(held) = element_in_slot(held.list[1], 1)
    /\ SyntaxList_last(held) = element_in_slot(held.list[1], 2)

(* The start_node calls of the call sequence l that no finish_node has
   matched yet, outermost first *)
RECURSIVE Open(_)
Open(l) ==
    IF l = <<>> THEN <<>>
    ELSE LET st == Open(Front(l))
             e == Last(l)
         IN  IF e.op = "start_node" THEN Append(st, e)
             ELSE IF e.op = "finish_node" /\ st # <<>> THEN Front(st)
             ELSE st

Before(i) == SubSeq(log, 1, i - 1)

RootsSealed(l) ==
    Cardinality({j \in 1..Len(l) :
        l[j].op = "finish_node" /\ l[j].elem.tag = "Node" /\ l[j].path = <<>>})

(* C15: the open frames are the start_node calls not yet matched by a
   finish_node; finish_node seals the innermost of them, with its kind, at
   its position in the enclosing frame; finish() yields the root only when no
   frame is open and the root was sealed exactly once; a finish_node without
   an open frame and a finish() with an open frame are fatal and yield no
   tree. *)
C15_StackDiscipline ==
    /\ pc = "building" =>
           /\ Len(parents) = Len(Open(log))
           /\ \A i \in 1..Len(parents) : parents[i].kind = Open(log)[i].elem.kind
    /\ trees # <<>> => pc = "built"
    /\ \A i \in 1..Len(log) :
           log[i].op = "finish" =>
               /\ i = Len(log)
               /\ IF Open(Before(i)) = <<>> /\ RootsSealed(Before(i)) = 1
                  THEN pc = "built"
                  ELSE pc = "panic" /\ trees = <<>>
    /\ pc = "built" =>
           /\ Last(log).op = "finish"
           /\ Open(log) = <<>>
           /\ RootsSealed(log) = 1
           /\ Len(trees) = 1
           /\ Cardinality(NodePaths(trees[1].green))
                  = Cardinality({j \in 1..Len(log) : log[j].op = "start_node"})
    /\ \A i \in 1..Len(log) :
           log[i].op = "finish_node" =>
               LET st == Open(Before(i))
               IN  IF st = <<>>
                   THEN pc = "panic" /\ i = Len(log) /\ trees = <<>>
                   ELSE /\ log[i].path = Last(st).path
                        /\ log[i].elem.tag = "Node"
                        /\ log[i].elem.kind = Last(st).elem.kind
                        /\ pc = "built" =>
                               green_at(trees[1].green, log[i].path) = log[i].elem

(* a root with a child node inside was built: two frames were open at once *)
C15_Witness ==
    /\ pc = "built"
    /\ \E i \in 1..Len(log) : Len(Open(Before(i))) = 2
    /\ \E n \in BuiltNodes : Len(n.path) = 1

(* finish() was called with a frame still open *)
C15_WitnessFinishOpen ==
    /\ pc = "panic"
    /\ Last(log).op = "finish"
    /\ parents # <<>>
    /\ \E j \in 1..Len(log) : log[j].op = "finish_node"

(* finish_node was called with no frame open *)
C15_WitnessFinishNode ==
    /\ pc = "panic"
    /\ Last(log).op = "finish_node"
    /\ Len(log) > 1

(* The positions in log of the start_node calls open before call i,
   outermost first *)
RECURSIVE OpenIdx(_)
OpenIdx(i) ==
    IF i <= 1 THEN <<>>
    ELSE LET st == OpenIdx(i - 1)
             e == log[i - 1]
         IN  IF e.op = "start_node" THEN Append(st, i - 1)
             ELSE IF e.op = "finish_node" /\ st # <<>> THEN Front(st)
             ELSE st

(* The frame call i is made in (0: none) *)
FrameOf(i) == IF OpenIdx(i) = <<>> THEN 0 ELSE Last(OpenIdx(i))

(* The calls that add an element to the frame they are made in; a child
   node takes its place when it is started *)
SlotEvent(i) == log[i].op \in {"start_node", "token", "missing"}

SlotEvents == SelectSeq([i \in 1..Len(log) |-> i], SlotEvent)

(* The number of slot events made in the frame of call i before call i *)
Ordinal(i) ==
    Cardinality({j \in 1..(i - 1) : SlotEvent(j) /\ FrameOf(j) = FrameOf(i)})

(* The path of the element call i adds, from the ordinals of the frames
   around it *)
PathOf(i) ==
    LET st == OpenIdx(i)
    IN  [d \in 1..Len(st) |->
            1 + Ordinal(IF d = Len(st) THEN i ELSE st[d + 1])]

(* C16: the k-th slot event of a frame (token, token_with_trivia, child node
   and missing() counted alike, from 0) is in slot k of the sealed node;
   index() of the child and the index of its line in the debug dump are k. *)
C16_SlotIndex ==
    pc = "built" =>
        /\ \A i \in 1..Len(log) :
               (SlotEvent(i) /\ FrameOf(i) # 0) =>
                   LET k == Ordinal(i)
                       p == PathOf(i)
                       par == Red(trees[1].green, Front(p))
                       e == Red(trees[1].green, p)
                   IN  /\ k < Len(cursor_green(par).slots)
                       /\ cursor_green(par).slots[k + 1].tag
                              = (IF log[i].op = "start_node" THEN "Node"
                                 ELSE IF log[i].op = "token" THEN "Token" ELSE "Empty")
                       /\ log[i].op = "missing" => element_in_slot(par, k) = None
                       /\ log[i].op = "token" =>
                              /\ element_in_slot(par, k) = Some(e)
                              /\ cursor_green(e) = log[i].elem
                              /\ SyntaxToken_index(e) = k
                       /\ log[i].op = "start_node" =>
                              /\ element_in_slot(par, k) = Some(e)
                              /\ kind(e) = log[i].elem.kind
                              /\ cursor_index(e) = k
        /\ LET lines == SyntaxNode_Debug_alternate(Root)
           IN  /\ Len(lines) = Len(SlotEvents)
               /\ \A j \in 1..Len(SlotEvents) :
                      LET i == SlotEvents[j]
                      IN  /\ lines[j].index = (IF FrameOf(i) = 0 THEN 0 ELSE Ordinal(i))
                          /\ lines[j].indent = 2 * Len(OpenIdx(i))
                          /\ lines[j].form
                                 = (IF log[i].op = "start_node" THEN "Node"
                                    ELSE IF log[i].op = "token" THEN "Token" ELSE "Empty")

(* missing() was the first event of the root frame and a token the second:
   the token is in slot 1 and the dump shows the Empty slot under index 0 *)
C16_Witness ==
    /\ pc = "built"
    /\ Len(cursor_green(Root).slots) >= 2
    /\ element_in_slot(Root, 0) = None
    /\ element_in_slot(Root, 1) # None
    /\ cursor_green(element_in_slot(Root, 1)[1]).tag = "Token"
    /\ SyntaxToken_index(element_in_slot(Root, 1)[1]) = 1
    /\ LET lines == SyntaxNode_Debug_alternate(Root)
       IN  /\ lines[2].form = "Empty" /\ lines[2].index = 0 /\ lines[2].indent = 2
           /\ lines[3].form = "Token" /\ lines[3].index = 1

(* Sum of the lengths of the piece descriptors ps *)
RECURSIVE PiecesLen(_)
PiecesLen(ps) ==
    IF ps = <<>> THEN 0 ELSE TriviaPiece_text_len(Head(ps)) + PiecesLen(Tail(ps))

Disjoint(r, q) == TextRange_len(r) = 0 \/ TextRange_len(q) = 0
                  \/ r.end <= q.start \/ q.end <= r.start

(* C17: for every token call the ranges of the leading trivia, of the
   trimmed text and of the trailing trivia abut in that order and cover the
   range of the token; the trivia lengths are the sums of the piece lengths
   given to the call; text() is leading text ++ text_trimmed() ++ trailing
   text; the trivia overlap no other token. *)
C17_TokenTrivia ==
    pc = "built" =>
        \A i \in 1..Len(log) :
            log[i].op = "token" =>
                LET t == Red(trees[1].green, PathOf(i))
                    lead == SyntaxToken_leading_trivia(t)
                    trail == SyntaxToken_trailing_trivia(t)
                    L == SyntaxTrivia_text_range(lead)
                    M == SyntaxToken_text_trimmed_range(t)
                    T == SyntaxTrivia_text_range(trail)
                    R == SyntaxToken_text_range(t)
                IN  /\ L.start = R.start /\ L.end = M.start
                    /\ M.end = T.start /\ T.end = R.end
                    /\ L.start <= L.end /\ M.start <= M.end /\ T.start <= T.end
                    /\ TextRange_len(L) = PiecesLen(log[i].elem.lead)
                    /\ TextRange_len(T) = PiecesLen(log[i].elem.trail)
                    /\ TextRange_len(R) = Len(log[i].elem.txt)
                    /\ SyntaxToken_text(t) = log[i].elem.txt
                    /\ SyntaxToken_text(t)
                           = SyntaxTrivia_text(lead) \o SyntaxToken_text_trimmed(t)
                             \o SyntaxTrivia_text(trail)
                    /\ Len(SyntaxTrivia_text(lead)) = TextRange_len(L)
                    /\ Len(SyntaxToken_text_trimmed(t)) = TextRange_len(M)
                    /\ \A o \in BuiltTokens \ {t} :
                           LET u == SyntaxToken_text_range(o)
                           IN  Disjoint(L, u) /\ Disjoint(T, u) /\ Disjoint(R, u)

(* a token with trivia on both sides that follows another token with
   trivia, inside a child node *)
C17_Witness ==
    /\ pc = "built"
    /\ \E i \in 1..Len(log) :
           /\ log[i].op = "token"
           /\ log[i].elem = TokB
           /\ Len(PathOf(i)) = 2
           /\ SyntaxToken_text_range(Red(trees[1].green, PathOf(i))).start = 4
           /\ SyntaxToken_text_trimmed(Red(trees[1].green, PathOf(i))) = <<"b">>

(* The trivia sides of token t, with the descriptors the call that made
   it was given *)
TriviaSides(t, call) ==
    <<[trivia |-> SyntaxToken_leading_trivia(t), given |-> call.elem.lead],
      [trivia |-> SyntaxToken_trailing_trivia(t), given |-> call.elem.trail]>>

(* The token calls of the build, each with the token it made *)
TokenCalls ==
    {[call |-> log[i], token |-> Red(trees[1].green, PathOf(i))] :
        i \in {j \in 1..Len(log) : log[j].op = "token"}}

(* C18: pieces() of either trivia side of a token yields the descriptors
   given to the call, in order; piece k starts where the trivia starts plus
   the lengths of the pieces before it and is text_len() long, its text is
   that slice of the trivia text, so the pieces abut and their texts
   concatenate to the trivia text; as_whitespace() is Some exactly for
   Whitespace pieces and as_comments() exactly for Comments pieces. *)
C18_TriviaPieces ==
    pc = "built" =>
        \A c \in TokenCalls :
                \A s \in 1..2 :
                    LET side == TriviaSides(c.token, c.call)[s]
                        ps == SyntaxTrivia_pieces(side.trivia)
                        range == SyntaxTrivia_text_range(side.trivia)
                        txt == SyntaxTrivia_text(side.trivia)
                    IN  /\ Len(ps) = Len(side.given)
                        /\ \A k \in 1..Len(ps) :
                               LET r == SyntaxTriviaPiece_text_range(ps[k])
                                   before == PiecesLen(SubSeq(side.given, 1, k - 1))
                               IN  /\ ps[k].trivia = side.given[k]
                                   /\ SyntaxTriviaPiece_text_len(ps[k]) = side.given[k].len
                                   /\ r.start = range.start + before
                                   /\ TextRange_len(r) = SyntaxTriviaPiece_text_len(ps[k])
                                   /\ SyntaxTriviaPiece_text(ps[k])
                                          = SubSeq(txt, before + 1, before + side.given[k].len)
                                   /\ k < Len(ps) =>
                                          r.end = SyntaxTriviaPiece_text_range(ps[k + 1]).start
                                   /\ (as_whitespace(ps[k]) # None)
                                          <=> (side.given[k].tag = "Whitespace")
                                   /\ (as_comments(ps[k]) # None)
                                          <=> (side.given[k].tag = "Comments")
                        /\ Flatten([k \in 1..Len(ps) |-> SyntaxTriviaPiece_text(ps[k])]) = txt
                        /\ ps # <<>> =>
                               /\ SyntaxTriviaPiece_text_range(ps[1]).start = range.start
                               /\ SyntaxTriviaPiece_text_range(ps[Len(ps)]).end = range.end

(* a token past offset 0 whose leading trivia is a Whitespace piece followed
   by a Comments piece *)
C18_Witness ==
    /\ pc = "built"
    /\ \E c \in TokenCalls :
           /\ c.call.elem = TokB
           /\ LET lead == TriviaSides(c.token, c.call)[1].trivia
                  ps == SyntaxTrivia_pieces(lead)
              IN  /\ SyntaxTrivia_text_range(lead).start > 0
                  /\ Len(ps) = 2
                  /\ as_whitespace(ps[1]) # None /\ as_comments(ps[1]) = None
                  /\ as_comments(ps[2]) # None /\ as_whitespace(ps[2]) = None
                  /\ SyntaxTriviaPiece_text(ps[2]) = <<"/">>
                  /\ SyntaxTriviaPiece_text_range(ps[2]).start
                         = SyntaxTrivia_text_range(lead).start + 1

Directions == {"Next", "Prev"}

(* The elements in the slots of the parent of e on one side of e that hold
   a node (nodes_only) or a node or token, nearest first *)
SlotsBeside(e, direction, nodes_only) ==
    LET p == Front(e.path)
        i == Last(e.path)
        slots == green_at(e.root, p).slots
        n == IF direction = "Next" THEN Len(slots) - i ELSE i - 1
        at == [k \in 1..n |-> IF direction = "Next" THEN i + k ELSE i - k]
        keep == SelectSeq(at, LAMBDA j : slots[j].tag = "Node"
                                         \/ (~nodes_only /\ slots[j].tag = "Token"))
    IN  [k \in 1..Len(keep) |-> Red(e.root, p \o <<keep[k]>>)]

(* C19: siblings_with_tokens(direction) of a token does not hold the token;
   it yields the non-empty siblings after (Next) or before (Prev) the token,
   nearest first, so its first element is next_sibling_or_token()
   (prev_sibling_or_token()). *)
C19_TokenSiblings ==
    pc = "built" =>
        \A t \in BuiltTokens :
            /\ SyntaxToken_parent(t) # None
            /\ \A d \in Directions :
                   LET S == SyntaxToken_siblings_with_tokens(t, d)
                       first == IF d = "Next" THEN SyntaxToken_next_sibling_or_token(t)
                                ELSE SyntaxToken_prev_sibling_or_token(t)
                   IN  /\ \A k \in 1..Len(S) : S[k] # t
                       /\ S = SlotsBeside(t, d, FALSE)
                       /\ first = (IF S = <<>> THEN None ELSE Some(S[1]))

(* a token with two elements after it *)
C19_Witness ==
    /\ pc = "built"
    /\ \E t \in BuiltTokens :
           LET S == SyntaxToken_siblings_with_tokens(t, "Next")
           IN  /\ Len(S) = 2
               /\ cursor_index(S[1]) = SyntaxToken_index(t) + 1
               /\ cursor_index(S[2]) = SyntaxToken_index(t) + 2
               /\ SyntaxToken_next_sibling_or_token(t) = Some(S[1])

(* a token with an Empty slot and then an element after it *)
C19_WitnessSkip ==
    /\ pc = "built"
    /\ \E t \in BuiltTokens :
           LET S == SyntaxToken_siblings_with_tokens(t, "Next")
           IN  /\ Len(S) = 1
               /\ cursor_index(S[1]) = SyntaxToken_index(t) + 2
               /\ SyntaxToken_next_sibling_or_token(t) = Some(S[1])

(* a token with two elements before it *)
C19_WitnessPrev ==
    /\ pc = "built"
    /\ \E t \in BuiltTokens :
           LET S == SyntaxToken_siblings_with_tokens(t, "Prev")
           IN  /\ Len(S) = 2
               /\ cursor_index(S[1]) > cursor_index(S[2])
               /\ SyntaxToken_prev_sibling_or_token(t) = Some(S[1])

(* C20: siblings(direction) of a node yields the node itself and then the
   successive results of next_sibling() (Next) or prev_sibling() (Prev) until
   None: only nodes, no Empty slot and no token; from the first child in
   direction Next these are the child nodes in document order, from the last
   child in direction Prev the child nodes in reverse order. *)
C20_NodeSiblings ==
    pc = "built" =>
        \A n \in BuiltNodes :
            \A d \in Directions :
                LET S == siblings(n, d)
                    step(x) == IF d = "Next" THEN next_sibling(x) ELSE prev_sibling(x)
                IN  /\ Len(S) >= 1
                    /\ S[1] = n
                    /\ \A k \in 1..(Len(S) - 1) : step(S[k]) = Some(S[k + 1])
                    /\ step(S[Len(S)]) = None
                    /\ \A k \in 1..Len(S) : cursor_green(S[k]).tag = "Node"
                    /\ parent(n) # None =>
                           LET C == children(parent(n)[1])
                           IN  /\ S = <<n>> \o SlotsBeside(n, d, TRUE)
                               /\ (d = "Next" /\ n = C[1]) => S = C
                               /\ (d = "Prev" /\ n = C[Len(C)]) => S = Reverse(C)

(* two child nodes with a token between them: from the first in direction
   Next and from the last in direction Prev *)
C20_Witness ==
    /\ pc = "built"
    /\ Len(cursor_green(Root).slots) = 3
    /\ cursor_green(Root).slots[2].tag = "Token"
    /\ LET a == Red(trees[1].green, <<1>>)
           c == Red(trees[1].green, <<3>>)
       IN  /\ cursor_green(a).tag = "Node" /\ cursor_green(c).tag = "Node"
           /\ siblings(a, "Next") = <<a, c>>
           /\ siblings(c, "Prev") = <<c, a>>
           /\ siblings(c, "Next") = <<c>>

----------------------------------------------------------------------------
(* Queries by offset and by range *)

(* The tree as finish() handed it over; a list view taken of it later leaves
   it as it is *)
Built == pc = "built" /\ held = SyntaxList_default

(* The offsets, and the ranges, a query may be given: those of the text of
   the built tree and one position past its end *)
Offsets == 0..(cursor_green(Root).len + 1)

Ranges == UNION {{TextRange(s, e) : e \in s..(cursor_green(Root).len + 1)} : s \in Offsets}

(* C21: token_at_offset with an offset outside the node's text range,
   covering_element with a range not contained in the node's text range and
   element_in_slot with an index at or past the slot count are fatal: each
   panics, none returns a value. *)
C21_OutOfRange ==
    Built =>
        \A n \in BuiltNodes :
            LET range == text_range(n)
                count == Len(cursor_green(n).slots)
            IN  /\ \A i \in count..(count + 1) : element_in_slot(n, i) = Fatal
                /\ \A offset \in Offsets :
                       (offset < range.start \/ offset > range.end)
                           => token_at_offset(n, offset) = Panic
                /\ \A r \in Ranges :
                       ~TextRange_contains_range(range, r)
                           => covering_element(n, r) = {Panic}

(* a node that starts after a token is asked about offset 0, about a range
   reaching before its start, and about the slot after its last *)
C21_Witness ==
    /\ pc = "built"
    /\ \E n \in BuiltNodes :
           /\ text_range(n).start > 0
           /\ text_range(n).end > text_range(n).start
           /\ token_at_offset(n, 0) = Panic
           /\ token_at_offset(n, text_range(n).start) # Panic
           /\ covering_element(n, TextRange(0, text_range(n).end)) = {Panic}
           /\ covering_element(n, text_range(n)) # {Panic}
           /\ element_in_slot(n, Len(cursor_green(n).slots)) = Fatal
           /\ element_in_slot(n, 0) # Fatal

----------------------------------------------------------------------------
(* Lengths and ranges in the trees alive *)

RECURSIVE SumRangeLen(_)
SumRangeLen(rs) ==
    IF rs = <<>> THEN 0 ELSE TextRange_len(Head(rs)) + SumRangeLen(Tail(rs))

(* Every node of every tree alive *)
AliveNodes ==
    UNION {{Red(trees[t].green, p) : p \in NodePaths(trees[t].green)} : t \in 1..Len(trees)}

(* C22: in every tree, built or edited by detach / splice_children, the
   text length of a node is the sum of the text lengths of its slots, an
   Empty slot counting 0, and the ranges of its children are adjacent in
   slot order: the first starts where the node starts, each next one where
   the one before ends, and the last ends where the node ends. *)
C22_LengthAdjacency ==
    \A n \in AliveNodes :
        LET cs == children_with_tokens(n)
            rs == [k \in 1..Len(cs) |-> SyntaxElement_text_range(cs[k])]
            range == text_range(n)
        IN  /\ TextRange_len(range) = SumRangeLen(rs)
            /\ Len(cs) <= Len(cursor_green(n).slots)
            /\ cs # <<>> =>
                   /\ rs[1].start = range.start
                   /\ rs[Len(cs)].end = range.end
            /\ \A k \in 1..(Len(cs) - 1) : rs[k + 1].start = rs[k].end

(* a detach left an Empty slot between two children of a node, the one
   after it a node with children of its own *)
C22_Witness ==
    /\ last.op = "detach" /\ ~last.panic
    /\ \E n \in AliveNodes :
           /\ n.root = RootAfter
           /\ \E i \in 2..(Len(cursor_green(n).slots) - 1) :
                  /\ cursor_green(n).slots[i].tag = "Empty"
                  /\ cursor_green(n).slots[i - 1].tag # "Empty"
                  /\ cursor_green(n).slots[i + 1].tag = "Node"
                  /\ Len(cursor_green(n).slots[i + 1].slots) > 1

(* a splice put two elements among the children of a node *)
C22_WitnessSplice ==
    /\ last.op = "splice_children" /\ ~last.panic
    /\ Len(last.ins) = 2
    /\ last.from > 0
    /\ Len(children_with_tokens(Red(RootAfter, last.handle.path))) > last.from + 2

----------------------------------------------------------------------------
(* The debug dump *)

(* The paths, relative to g, of all slots of the subtree of g, Empty ones
   included and g itself first, in document order *)
RECURSIVE slot_paths(_)
slot_paths(g) ==
    << <<>> >> \o
    Flatten([i \in 1..Len(g.slots) |->
        LET sub == slot_paths(g.slots[i])
        IN  [j \in 1..Len(sub) |-> <<i>> \o sub[j]]])

(* The depth counter after each of the events evs, counted from 0 *)
Depths(evs) ==
    [k \in 1..Len(evs) |->
        Cardinality({j \in 1..k : evs[j].ev = "Enter"})
            - Cardinality({j \in 1..k : evs[j].ev = "Leave"})]

(* C23: the slot traversal behind the {:#?} dump of a node has one Enter and
   one matching Leave for every slot of the subtree, token and Empty slots
   included; the depth counter is never negative and is 0 at the end, so
   the assertion level == 0 holds; every Enter at depth d writes one line
   led by 2*d spaces with the slot's index and the element, or (empty). *)
C23_DebugDump ==
    Built =>
        \A n \in BuiltNodes :
            LET evs == cursor_preorder_slots(n)
                sp == slot_paths(cursor_green(n))
                ds == Depths(evs)
                lines == SyntaxNode_Debug_alternate(n)
                enters == SelectSeq([k \in 1..Len(evs) |-> k], LAMBDA k : evs[k].ev = "Enter")
            IN  /\ lines # Fatal
                /\ Len(lines) = Len(sp)
                /\ Len(enters) = Len(sp)
                /\ Len(evs) = 2 * Len(sp)
                /\ \A k \in 1..Len(evs) : ds[k] >= 0
                /\ ds[Len(evs)] = 0
                /\ \A j \in 1..Len(sp) :
                       LET g == green_at(cursor_green(n), sp[j])
                           e == Red(n.root, n.path \o sp[j])
                           k == enters[j]
                       IN  /\ evs[k].slot.elem = e
                           /\ ds[k] - 1 = Len(sp[j])
                           \* the matching Leave: the first later event back at this depth
                           /\ \E m \in (k + 1)..Len(evs) :
                                  /\ evs[m].ev = "Leave" /\ evs[m].slot.elem = e
                                  /\ ds[m] = Len(sp[j])
                                  /\ \A i \in k..(m - 1) : ds[i] > Len(sp[j])
                           /\ lines[j].indent = 2 * Len(sp[j])
                           /\ lines[j].index = (IF n.path \o sp[j] = <<>> THEN 0
                                                ELSE Last(n.path \o sp[j]) - 1)
                           /\ lines[j].form = g.tag
                           /\ g.tag = "Empty" => lines[j].body = [empty |-> TRUE]
                           /\ g.tag = "Node" => lines[j].body = SyntaxNode_Debug(e)
                           /\ g.tag = "Token" => lines[j].body = SyntaxToken_Debug(e)

(* the dump of a tree with an Empty slot and a token inside a nested node:
   lines at 0, 2 and 4 spaces, one of them (empty) *)
C23_Witness ==
    /\ pc = "built"
    /\ LET lines == SyntaxNode_Debug_alternate(Root)
       IN  /\ lines # Fatal
           /\ \E i, j, k \in 1..Len(lines) :
                  /\ lines[i].form = "Empty"
                  /\ lines[j].form = "Token" /\ lines[j].indent = 4
                  /\ lines[k].form = "Node" /\ lines[k].indent = 2

----------------------------------------------------------------------------
(* Preorder traversals *)

Walk_next(it) == IF it.nodes_only THEN Preorder_next(it) ELSE PreorderWithTokens_next(it)

Walk_skip_subtree(it) ==
    IF it.nodes_only THEN Preorder_skip_subtree(it) ELSE PreorderWithTokens_skip_subtree(it)

(* The events a client gets that calls next() until None, and skip_subtree()
   right after every Enter of an element of skips *)
RECURSIVE Traverse(_, _)
Traverse(it, skips) ==
    LET step == Walk_next(it)
    IN  IF step.item = None THEN <<>>
        ELSE LET e == step.item[1]
                 rest == IF e.ev = "Enter" /\ e.elem \in skips
                         THEN Walk_skip_subtree(step.iter)
                         ELSE step.iter
             IN  <<e>> \o Traverse(rest, skips)

(* The elements of the subtree of n a traversal visits, in document order *)
Visited(n, nodes_only) ==
    LET sp == SelectSeq(slot_paths(cursor_green(n)),
                  LAMBDA p : \/ green_at(cursor_green(n), p).tag = "Node"
                             \/ (~nodes_only /\ green_at(cursor_green(n), p).tag = "Token"))
    IN  [j \in 1..Len(sp) |-> Red(n.root, n.path \o sp[j])]

(* evs without the events strictly between Enter(x) and Leave(x) *)
Pruned(evs, x) ==
    LET a == CHOOSE k \in 1..Len(evs) : evs[k] = WalkEvent_Enter(x)
        b == CHOOSE k \in 1..Len(evs) : evs[k] = WalkEvent_Leave(x)
        keep == SelectSeq([k \in 1..Len(evs) |-> k], LAMBDA k : k <= a \/ k >= b)
    IN  [k \in 1..Len(keep) |-> evs[keep[k]]]

(* C24: preorder() and preorder_with_tokens() end; every node (every node
   and token) of the subtree has one Enter and one later Leave, properly
   nested, the Enters in document order.  With skip_subtree() called right
   after Enter(x), the next event is Leave(x), nothing below x is entered
   and the events after Leave(x) are those of the traversal without the
   skip. *)
C24_Preorder ==
    Built =>
        \A n \in BuiltNodes : \A nodes_only \in BOOLEAN :
            LET start == IF nodes_only THEN preorder(n) ELSE preorder_with_tokens(n)
                evs == Traverse(start, {})
                els == Visited(n, nodes_only)
                ds == Depths(evs)
                enters == SelectSeq([k \in 1..Len(evs) |-> k], LAMBDA k : evs[k].ev = "Enter")
            IN  /\ Len(evs) = 2 * Len(els)
                /\ Len(enters) = Len(els)
                /\ \A j \in 1..Len(els) :
                       LET k == enters[j]
                       IN  /\ evs[k].elem = els[j]
                           /\ \E m \in (k + 1)..Len(evs) :
                                  /\ evs[m] = WalkEvent_Leave(els[j])
                                  /\ ds[m] = ds[k] - 1
                                  /\ \A i \in k..(m - 1) : ds[i] >= ds[k]
                /\ \A k \in 1..Len(evs) : ds[k] >= 0
                /\ \A j \in 1..Len(els) :
                       LET x == els[j]
                           skipped == Traverse(start, {x})
                       IN  /\ skipped = Pruned(evs, x)
                           /\ \E k \in 1..(Len(skipped) - 1) :
                                  /\ skipped[k] = WalkEvent_Enter(x)
                                  /\ skipped[k + 1] = WalkEvent_Leave(x)
                           /\ \A k \in 1..Len(skipped) :
                                  \/ skipped[k].elem = x
                                  \/ Len(skipped[k].elem.path) <= Len(x.path)
                                  \/ SubSeq(skipped[k].elem.path, 1, Len(x.path)) # x.path

(* a node with a child is skipped and the traversal goes on to the sibling
   after it *)
C24_Witness ==
    /\ pc = "built"
    /\ \E x \in BuiltNodes :
           LET evs == Traverse(preorder_with_tokens(Root), {})
               skipped == Traverse(preorder_with_tokens(Root), {x})
           IN  /\ x # Root
               /\ first_child_or_token(x) # None
               /\ next_sibling_or_token(x) # None
               /\ Len(skipped) < Len(evs)
               /\ \E k \in 1..(Len(skipped) - 2) :
                      /\ skipped[k] = WalkEvent_Enter(x)
                      /\ skipped[k + 1] = WalkEvent_Leave(x)
                      /\ skipped[k + 2] = WalkEvent_Enter(next_sibling_or_token(x)[1])

(* the same for preorder(): a node whose child node is skipped *)
C24_WitnessNodes ==
    /\ pc = "built"
    /\ \E x \in BuiltNodes :
           /\ x # Root
           /\ children(x) # <<>>
           /\ Len(Traverse(preorder(Root), {x})) < Len(Traverse(preorder(Root), {}))

(* C25: for an offset within the range of a node, token_at_offset is the
   single token the offset is strictly inside of, the pair of adjacent
   tokens the offset lies between, or no token when the offset is past the
   end of every token; the tokens returned are tokens of the node whose
   range reaches the offset. *)
C25_TokenAtOffset ==
    Built =>
        \A n \in BuiltNodes :
            LET ts == cursor_descendants_tokens(n)
                rs == [k \in 1..Len(ts) |-> SyntaxToken_text_range(ts[k])]
            IN  \A offset \in text_range(n).start..text_range(n).end :
                    LET r == token_at_offset(n, offset)
                    IN  /\ r # Panic
                        /\ \/ r.tag = "None" /\ Len(r.tokens) = 0
                           \/ r.tag = "Single" /\ Len(r.tokens) = 1
                           \/ r.tag = "Between" /\ Len(r.tokens) = 2
                        /\ \A k \in 1..Len(ts) :
                               (rs[k].start < offset /\ offset < rs[k].end)
                                   => r = TokenAtOffset_Single(ts[k])
                        /\ \A k \in 1..(Len(ts) - 1) :
                               (rs[k].end = offset /\ offset = rs[k + 1].start)
                                   => r = TokenAtOffset_Between(ts[k], ts[k + 1])
                        /\ (\A k \in 1..Len(ts) : rs[k].end < offset) <=> r.tag = "None"
                        /\ \A i \in 1..Len(r.tokens) :
                               \E k \in 1..Len(ts) :
                                   /\ r.tokens[i] = ts[k]
                                   /\ rs[k].start <= offset /\ offset <= rs[k].end
                        /\ r.tag = "Between" =>
                               /\ SyntaxToken_text_range(r.tokens[1]).end = offset
                               /\ SyntaxToken_text_range(r.tokens[2]).start = offset

(* an offset where the last token of a nested node meets the token after
   the node: the two tokens come from different levels *)
C25_Witness ==
    /\ pc = "built"
    /\ \E offset \in Offsets :
           LET r == token_at_offset(Root, offset)
           IN  /\ offset < text_range(Root).end
               /\ r # Panic
               /\ r.tag = "Between"
               /\ Len(r.tokens[1].path) # Len(r.tokens[2].path)

(* an offset strictly inside a token that follows another one *)
C25_WitnessSingle ==
    /\ pc = "built"
    /\ \E offset \in Offsets :
           LET r == token_at_offset(Root, offset)
           IN  /\ offset < text_range(Root).end
               /\ r # Panic
               /\ r.tag = "Single"
               /\ SyntaxToken_text_range(r.tokens[1]).start > 0
               /\ SyntaxToken_text_range(r.tokens[1]).start < offset

(* a node without text beside a token: no token at its one offset *)
C25_WitnessNone ==
    /\ pc = "built"
    /\ \E n \in BuiltNodes :
           /\ text_range(n).start > 0
           /\ token_at_offset(n, text_range(n).start) = TokenAtOffset_None

(* C26: for a range contained in the range of a node, covering_element ends
   and returns the node or an element below it whose range contains the
   range and none of whose children has a range containing it, also with
   Empty slots and children without text. *)
C26_CoveringElement ==
    Built =>
        LET ranges == Ranges
        IN  \A n \in BuiltNodes :
                LET range == text_range(n)
                IN  \A r \in {q \in ranges : TextRange_contains_range(range, q)} :
                        LET res == covering_element(n, r)
                        IN  /\ res # {Panic}
                            /\ res # {}
                            /\ \A e \in res :
                                   LET cs == IF cursor_green(e).tag = "Node"
                                             THEN children_with_tokens(e) ELSE <<>>
                                   IN  /\ e.root = n.root
                                       /\ Len(e.path) >= Len(n.path)
                                       /\ SubSeq(e.path, 1, Len(n.path)) = n.path
                                       /\ cursor_green(e).tag \in {"Node", "Token"}
                                       /\ TextRange_contains_range(SyntaxElement_text_range(e), r)
                                       /\ \A k \in 1..Len(cs) :
                                              ~TextRange_contains_range(
                                                   SyntaxElement_text_range(cs[k]), r)

(* a range inside a token of a nested node is covered by that token, two
   levels down *)
C26_Witness ==
    /\ pc = "built"
    /\ \E r \in Ranges :
           /\ r.start < r.end
           /\ TextRange_contains_range(text_range(Root), r)
           /\ \E e \in covering_element(Root, r) :
                  /\ Len(e.path) = 2
                  /\ cursor_green(e).tag = "Token"
                  /\ SyntaxElement_text_range(e).start > 0

(* a range over the end of one child and the start of the next is covered by
   the node itself *)
C26_WitnessSelf ==
    /\ pc = "built"
    /\ Len(children_with_tokens(Root)) > 1
    /\ \E r \in Ranges :
           /\ r.start < r.end
           /\ TextRange_contains_range(text_range(Root), r)
           /\ covering_element(Root, r) = {Root}

(* an empty range where a token, a node without text and a token meet has
   three covering elements *)
C26_WitnessEmptyRange ==
    /\ pc = "built"
    /\ \E r \in Ranges :
           /\ r.start = r.end
           /\ TextRange_contains_range(text_range(Root), r)
           /\ Cardinality(covering_element(Root, r)) = 3

(* Two ranges intersect: neither lies wholly before the other *)
Intersects(a, b) == a.start < b.end /\ b.start < a.end

(* C27: child_or_token_at_range agrees with the linear scan of the direct
   children: it is Some(c) only for a direct child c whose range intersects
   the range, and None exactly when no direct child's range does, also with
   children without text and Empty slots. *)
C27_ChildAtRange ==
    Built =>
        LET ranges == Ranges
        IN  \A n \in BuiltNodes :
                LET cs == children_with_tokens(n)
                    rs == [k \in 1..Len(cs) |-> SyntaxElement_text_range(cs[k])]
                IN  \A r \in ranges :
                        LET res == child_or_token_at_range(n, r)
                            scan == {k \in 1..Len(cs) : Intersects(rs[k], r)}
                        IN  /\ res = None <=> scan = {}
                            /\ res # None => \E k \in scan : res = Some(cs[k])

(* the search passes a child without text and ends at the third child *)
C27_Witness ==
    /\ pc = "built"
    /\ LET cs == children_with_tokens(Root)
       IN  /\ Len(cs) = 3
           /\ TextRange_len(SyntaxElement_text_range(cs[2])) = 0
           /\ \E r \in Ranges : child_or_token_at_range(Root, r) = Some(cs[3])
           /\ \E r \in Ranges :
                  /\ r.start < r.end
                  /\ child_or_token_at_range(Root, r) = Some(cs[2])
           /\ \E r \in Ranges :
                  /\ TextRange_contains_range(text_range(Root), r)
                  /\ child_or_token_at_range(Root, r) = None

(* the same with an Empty slot between the children *)
C27_WitnessEmptySlot ==
    /\ pc = "built"
    /\ Len(cursor_green(Root).slots) = 3
    /\ cursor_green(Root).slots[2].tag = "Empty"
    /\ \E r \in Ranges :
           /\ child_or_token_at_range(Root, r) # None
           /\ child_or_token_at_range(Root, r) = last_child_or_token(Root)

----------------------------------------------------------------------------
(* Ancestors *)

(* Every node and token of every tree alive *)
AliveElements ==
    UNION {{Red(trees[t].green, p) : p \in ElementPaths(trees[t].green)} : t \in 1..Len(trees)}

(* as is a chain of parents that ends at a node without parent *)
ParentChain(as) ==
    /\ \A k \in 1..(Len(as) - 1) : parent(as[k]) = Some(as[k + 1])
    /\ parent(as[Len(as)]) = None
    /\ as[Len(as)].path = <<>>

(* C28 as stated: ancestors() of every element is a non-empty finite chain
   that starts at the node itself, or at the parent of the token, and ends at
   the node whose parent() is None. *)
C28_Original ==
    \A e \in AliveElements :
        LET as == SyntaxElement_ancestors(e)
        IN  /\ Len(as) >= 1
            /\ as[1] = (IF cursor_green(e).tag = "Node" THEN e ELSE SyntaxElement_parent(e)[1])
            /\ ParentChain(as)

(* C28: ancestors() of an element is finite: for a node it starts at the node
   itself and for a token at the token's parent, each next item is the parent
   of the one before and the last is the root, whose parent() is None, an
   absence and not an error; for a token without a parent, as detach leaves
   it, ancestors() yields nothing. *)
C28_Ancestors ==
    \A e \in AliveElements :
        LET as == SyntaxElement_ancestors(e)
            node == cursor_green(e).tag = "Node"
        IN  /\ Len(as) = (IF node THEN Len(e.path) + 1 ELSE Len(e.path))
            /\ as = (IF node THEN ancestors(e) ELSE SyntaxToken_ancestors(e))
            /\ (~node /\ SyntaxElement_parent(e) = None) => as = <<>>
            /\ (node \/ SyntaxElement_parent(e) # None) =>
                   /\ Len(as) >= 1
                   /\ as[1] = (IF node THEN e ELSE SyntaxElement_parent(e)[1])
                   /\ ParentChain(as)
            /\ SyntaxElement_parent(Red(e.root, <<>>)) = None

(* a token two levels below the root of an edited tree: its parent, then the
   root *)
C28_Witness ==
    /\ last.op \in {"detach", "splice_children"} /\ ~last.panic
    /\ \E e \in AliveElements :
           /\ e.root = RootAfter
           /\ cursor_green(e).tag = "Token"
           /\ Len(SyntaxElement_ancestors(e)) = 2

(* a token that was detached has no parent and no ancestors *)
C28_WitnessDetached ==
    /\ last.op = "detach" /\ ~last.panic
    /\ \E e \in AliveElements :
           /\ cursor_green(e).tag = "Token"
           /\ SyntaxElement_parent(e) = None
           /\ SyntaxElement_ancestors(e) = <<>>

----------------------------------------------------------------------------
(* C29: in pattern(), for an identifier, yield or await token outside an
   assignment target and while should_record_names is set, over any sequence
   of calls: the name `let` reports an error and is not inserted into
   name_map; a name already in name_map reports a duplicate-declaration error
   that points at the recorded range, and the recorded range stays; any other
   name is inserted with the range of the current token.  Hence name_map
   never holds `let`, holds one range per name, and that range is the one of
   the first occurrence of the name that was recorded.  While
   should_record_names is unset name_map is left as it is. *)
C29_NameMap ==
    /\ \A i \in 1..Len(parser.decls) :
           LET d == parser.decls[i]
               existing == {e \in d.before : e.name = d.name}
           IN  IF ~d.recording THEN d.after = d.before
               ELSE IF d.name = "let"
               THEN /\ d.after = d.before
                    /\ d.errors = <<ParseError("let_as_name", d.range, None)>>
               ELSE IF existing # {}
               THEN /\ d.after = d.before
                    /\ Len(d.errors) = 1
                    /\ d.errors[1].code = "duplicate_declaration"
                    /\ d.errors[1].primary = d.range
                    /\ \E e \in existing : d.errors[1].secondary = Some(e.range)
               ELSE /\ d.after = d.before \cup {[name |-> d.name, range |-> d.range]}
                    /\ d.errors = <<>>
    /\ \A e \in parser.state.name_map :
           LET occ == {i \in 1..Len(parser.decls) :
                           parser.decls[i].recording /\ parser.decls[i].name = e.name}
           IN  /\ e.name # "let"
               /\ occ # {}
               /\ e.range = parser.decls[CHOOSE i \in occ : \A j \in occ : i <= j].range
               /\ \A f \in parser.state.name_map : f.name = e.name => f = e

(* a name was declared twice while names are recorded: the second
   declaration reported the error and the first range is the one recorded *)
C29_Witness ==
    \E i, j \in 1..Len(parser.decls) :
        /\ i < j
        /\ parser.decls[i].recording
        /\ parser.decls[i].name = parser.decls[j].name
        /\ parser.decls[i].name # "let"
        /\ parser.decls[j].errors # <<>>
        /\ [name |-> parser.decls[i].name, range |-> parser.decls[i].range]
               \in parser.state.name_map

(* `let` was declared while names are recorded, below an array pattern *)
C29_WitnessLet ==
    /\ parser.call.fn = "pattern"
    /\ parser.toks[parser.call.pos].kind = "["
    /\ \E i \in 1..Len(parser.decls) :
           /\ parser.decls[i].recording
           /\ parser.decls[i].name = "let"
           /\ parser.decls[i].errors # <<>>

(* a name was declared while names are not recorded *)
C29_WitnessUnset ==
    \E i \in 1..Len(parser.decls) :
        ~parser.decls[i].recording /\ parser.decls[i].name = "a"

----------------------------------------------------------------------------
(* The calls the tree sink receives for the events of the last call, and the
   depth of open nodes after each of them *)
SinkCalls == process(parser.events)

SinkDepth(calls, i) ==
    Cardinality({j \in 1..i : calls[j].op = "start_node"})
    - Cardinality({j \in 1..i : calls[j].op = "finish_node"})

(* The nodes started directly inside the node that calls[i] starts *)
ChildNodes(calls, i) ==
    LET d == SinkDepth(calls, i)
    IN  {j \in (i + 1)..Len(calls) :
            /\ calls[j].op = "start_node"
            /\ SinkDepth(calls, j) = d + 1
            /\ \A k \in i..j : SinkDepth(calls, k) >= d}

PatternCalls == {"pattern", "binding_element", "array_binding_pattern",
                 "object_binding_pattern"}

(* C30: when pattern, binding_element, array_binding_pattern or
   object_binding_pattern returns (object_binding_prop runs below
   object_binding_pattern), every marker the call opened with start() or
   precede() has been completed or abandoned exactly once; the start-node and
   finish-node calls made for its events are balanced and nested: the depth
   never falls below zero and is zero at the end; every ARRAY_PATTERN and
   every OBJECT_PATTERN node holds exactly one node, a LIST; and the result
   of array_binding_pattern is an ARRAY_PATTERN, that of
   object_binding_pattern an OBJECT_PATTERN, whatever the input. *)
C30_Markers ==
    (parser.call.fn \in PatternCalls /\ parser.call.returned) =>
        LET calls == SinkCalls
        IN  /\ \A id \in 1..Len(parser.markers) : parser.markers[id] = 1
            /\ \A i \in 1..Len(calls) : SinkDepth(calls, i) >= 0
            /\ SinkDepth(calls, Len(calls)) = 0
            /\ \A i \in 1..Len(calls) :
                   (calls[i].op = "start_node"
                    /\ calls[i].kind \in {"ARRAY_PATTERN", "OBJECT_PATTERN"}) =>
                       \E j \in ChildNodes(calls, i) :
                           /\ calls[j].kind = "LIST"
                           /\ ChildNodes(calls, i) = {j}
            /\ parser.call.fn = "array_binding_pattern" =>
                   /\ parser.call.ret.kind = "ARRAY_PATTERN"
                   /\ parser.events[parser.call.ret.start_pos].kind = "ARRAY_PATTERN"
            /\ parser.call.fn = "object_binding_pattern" =>
                   /\ parser.call.ret.kind = "OBJECT_PATTERN"
                   /\ parser.events[parser.call.ret.start_pos].kind = "OBJECT_PATTERN"
            /\ (parser.call.fn = "pattern" /\ parser.toks[parser.call.pos].kind = "[") =>
                   /\ parser.call.ret # None
                   /\ parser.call.ret[1].kind = "ARRAY_PATTERN"

(* an object pattern returned whose properties took the paths of
   object_binding_prop that precede the name, complete the marker as an
   assignment pattern and abandon it behind other events *)
C30_Witness ==
    /\ parser.call.fn = "pattern"
    /\ parser.call.returned
    /\ parser.call.ret # None
    /\ parser.call.ret[1].kind = "OBJECT_PATTERN"
    /\ \E i \in 1..Len(parser.events) : parser.events[i].fp # 0
    /\ \E i \in 1..Len(parser.events) :
           parser.events[i].tag = "Start" /\ parser.events[i].kind = "ASSIGN_PATTERN"
    /\ \E i \in 1..Len(parser.events) :
           parser.events[i].tag = "Start" /\ parser.events[i].kind = "TOMBSTONE"

(* an array pattern that breaks out of its loop after a rest element and
   misses its closing bracket *)
C30_WitnessArray ==
    /\ parser.call.fn = "array_binding_pattern"
    /\ parser.call.returned
    /\ \E i \in 1..Len(parser.events) : parser.events[i].kind = "REST_PATTERN"
    /\ parser.events[Len(parser.events) - 1].tag = "Missing"

(* pattern returning early from its assignment arm, the marker abandoned *)
C30_WitnessEarlyReturn ==
    /\ parser.call.fn = "pattern"
    /\ parser.call.returned
    /\ parser.call.ret = None
    /\ \E i \in 1..Len(parser.events) :
           parser.events[i].tag = "Start" /\ parser.events[i].kind = "TOMBSTONE"

(* an object pattern that breaks out of its loop at the brace after a comma *)
C30_WitnessTrailingComma ==
    /\ parser.call.fn \in {"pattern", "object_binding_pattern"}
    /\ parser.call.returned
    /\ parser.call.pos = 1
    /\ parser.pos = Len(parser.toks) + 1
    /\ Len(parser.toks) >= 2
    /\ parser.toks[Len(parser.toks)].kind = "}"
    /\ parser.toks[Len(parser.toks) - 1].kind = ","
    /\ parser.errors = <<>>

====
